---- MODULE Spec2Model ----
(***************************************************************************)
(* State-machine model of nfdeterminize: the Ubig bit set (ubig.rs), the   *)
(* sequential Rabin-Scott subset construction and Hopcroft's partition     *)
(* refinement (automaton_sequential.rs, automaton.rs) and the sharded      *)
(* multithreaded subset construction (automaton_multithreaded.rs).         *)
(***************************************************************************)
EXTENDS Integers, Sequences, FiniteSets, TLC

(***************************************************************************)
(* Bounds of the explored inputs.                                          *)
(***************************************************************************)
\* longest transition table of an input NFA
MaxTrans == 2
\* alphabet sizes of the input automata
Alphabets == {1, 2}
\* the input NFAs use the state ids 0 and h and have size h + 1;
\* h = 10 lies in the second storage byte of a Ubig.
HighIds == {1, 10}

(***************************************************************************)
(* Generic helpers on sequences.                                           *)
(***************************************************************************)
Range(s) == {s[i] : i \in DOMAIN s}

Pow2(k) == 2 ^ k

(***************************************************************************)
(* ubig.rs : Ubig { num: Vec<u8> }.  A Ubig is the sequence of its bytes.  *)
(***************************************************************************)
\* Ubig::new
UbigNew == <<>>

\* Ubig::bit_at
bit_at(u, pos) ==
    IF pos < Len(u) * 8
    THEN (u[(pos \div 8) + 1] \div Pow2(pos % 8)) % 2 = 1
    ELSE FALSE

RECURSIVE ExtendLoop(_, _)
\* the loop of Ubig::extend: one zero byte per 8 of size_incr above 8, then one more
ExtendLoop(u, size_incr) ==
    IF size_incr > 8 THEN ExtendLoop(Append(u, 0), size_incr - 8)
    ELSE Append(u, 0)

\* Ubig::extend (new_size is the bit index, num.len() a byte count)
extend(u, new_size) == ExtendLoop(u, new_size - Len(u))

\* the in-range branch of Ubig::flip: num[pos] ^ (1 << bit % 8)
FlipByte(u, bit) ==
    LET pos == (bit \div 8) + 1
        m   == Pow2(bit % 8)
    IN [u EXCEPT ![pos] = IF (u[pos] \div m) % 2 = 1 THEN u[pos] - m ELSE u[pos] + m]

RECURSIVE flip(_, _)
\* Ubig::flip
flip(u, bit) ==
    IF bit < Len(u) * 8 THEN FlipByte(u, bit)
    ELSE flip(extend(u, bit), bit)

\* Ubig::set_to
set_to(u, bit, val) ==
    IF bit < Len(u) * 8
    THEN LET pos == (bit \div 8) + 1
             m   == Pow2(bit % 8)
             on  == (u[pos] \div m) % 2 = 1
         IN IF val
            THEN [u EXCEPT ![pos] = IF on THEN u[pos] ELSE u[pos] + m]
            ELSE [u EXCEPT ![pos] = IF on THEN u[pos] - m ELSE u[pos]]
    ELSE flip(extend(u, bit), bit)

RECURSIVE GetSeqFrom(_, _)
\* the byte/bit double loop of Ubig::get_seq from position p = byte * 8 + bit on
GetSeqFrom(u, p) ==
    IF p >= Len(u) * 8 THEN <<>>
    ELSE IF (u[(p \div 8) + 1] \div Pow2(p % 8)) % 2 = 1
         THEN <<p>> \o GetSeqFrom(u, p + 1)
         ELSE GetSeqFrom(u, p + 1)

\* get_seq that reads the first byte only
get_seq_FirstByte(u) == IF u = <<>> THEN <<>> ELSE GetSeqFrom(<<u[1]>>, 0)

\* Ubig::get_seq
get_seq(u) == GetSeqFrom(u, 0)

RECURSIVE EqLoop(_, _, _)
\* the for loop of PartialEq::eq from byte index `byte` on; x is the longer operand
EqLoop(x, y, byte) ==
    IF byte >= Len(x) THEN TRUE
    ELSE IF byte >= Len(y)
         THEN IF x[byte + 1] = 1 THEN FALSE ELSE EqLoop(x, y, byte + 1)
         ELSE IF x[byte + 1] # y[byte + 1] THEN FALSE ELSE EqLoop(x, y, byte + 1)

\* impl PartialEq for Ubig : eq
eq(x, y) == IF Len(x) < Len(y) THEN EqLoop(y, x, 0) ELSE EqLoop(x, y, 0)

\* impl Hash for Ubig : what self.num.hash(state) feeds the hasher, the length
\* of the vector and then its bytes.  The hash is a function of this input.
hash(u) == <<Len(u)>> \o u

RECURSIVE FromSeqLoop(_, _)
\* `for bit in bit_list { ret.set_to(&bit, true) }`
FromSeqLoop(u, bit_list) ==
    IF bit_list = <<>> THEN u
    ELSE FromSeqLoop(set_to(u, Head(bit_list), TRUE), Tail(bit_list))

\* Ubig::from_seq
from_seq(bit_list) == FromSeqLoop(UbigNew, bit_list)

\* Ubig::compress : lz4 block with the length prepended.  For payloads this
\* short lz4 stores one literal run: 4 length bytes, the token, the bytes.
compress(u) == <<Len(u), 0, 0, 0, (Len(u) * 16) % 256>> \o u

\* CompressedUbig::decompress : the payload behind the length and the token
decompress(c) == SubSeq(c, 6, Len(c))

\* the set of indices a Ubig holds
Members(u) == {p \in 0..(Len(u) * 8 - 1) : bit_at(u, p)}

(***************************************************************************)
(* automaton.rs : struct Automaton.  Transitions are triples               *)
(* <<source, symbol, destination>>; symbol 0 is the empty word.            *)
(***************************************************************************)
\* Automaton::new
Automaton(type, size, alphabet, table, start, end) ==
    [automaton_type |-> type, size |-> size, alphabet |-> alphabet,
     table |-> table, start |-> start, end |-> end]

RECURSIVE DestList(_, _, _)
\* the destinations t.2 of the transitions of `table` with t.0 = s, t.1 = a, in table order
DestList(table, s, a) ==
    IF table = <<>> THEN <<>>
    ELSE LET t == Head(table)
         IN IF t[1] = s /\ t[2] = a
            THEN <<t[3]>> \o DestList(Tail(table), s, a)
            ELSE DestList(Tail(table), s, a)

\* Automaton::get_transition_array : arr[symbol][source] = destinations, (A+1) x (N+1)
get_transition_array(aut) ==
    [c \in 0..aut.alphabet |-> [s \in 0..aut.size |-> DestList(aut.table, s, c)]]

RECURSIVE AddStateLoop_NoEps(_, _, _)
\* AddStateLoop that does not follow the symbol-0 transitions of b
AddStateLoop_NoEps(arr, num, queue) ==
    IF queue = <<>> THEN num
    ELSE LET b == Head(queue)
         IN IF ~bit_at(num, b)
            THEN AddStateLoop_NoEps(arr, set_to(num, b, TRUE), Tail(queue))
            ELSE AddStateLoop_NoEps(arr, num, Tail(queue))

RECURSIVE AddStateLoop(_, _, _)
\* the worklist loop of Automaton::add_state
AddStateLoop(arr, num, queue) ==
    IF queue = <<>> THEN num
    ELSE LET b == Head(queue)
         IN IF ~bit_at(num, b)
            THEN AddStateLoop(arr, set_to(num, b, TRUE), Tail(queue) \o arr[0][b])
            ELSE AddStateLoop(arr, num, Tail(queue))

\* add_state that adds `bit` and its direct symbol-0 successors only
add_state_OneHop(arr, num, bit) == AddStateLoop_NoEps(arr, num, <<bit>> \o arr[0][bit])

\* Automaton::add_state : add `bit` and all it reaches by symbol-0 transitions
add_state(arr, num, bit) == AddStateLoop(arr, num, <<bit>>)

RECURSIVE AddStates(_, _, _)
\* add_state for each element of a list, in list order
AddStates(arr, num, bits) ==
    IF bits = <<>> THEN num
    ELSE AddStates(arr, add_state(arr, num, Head(bits)), Tail(bits))

RECURSIVE Targets(_, _, _)
\* transition_arr[a][s] for s along `members`, concatenated
Targets(arr, members, c) ==
    IF members = <<>> THEN <<>>
    ELSE arr[c][Head(members)] \o Targets(arr, Tail(members), c)

\* the successor subset of `subset` on symbol c (the nested for_each of the explore
\* loop); the list of targets is bound once and then added state by state
NewSubset(arr, subset, c) ==
    CHOOSE new_s \in {AddStates(arr, UbigNew, targets) : targets \in {Targets(arr, get_seq(subset), c)}} : TRUE

\* HitsEnd that tests the first accepting state only
HitsEnd_FirstOnly(aut, u) == aut.end # <<>> /\ bit_at(u, aut.end[1])

\* `for s in &aut.end { if u.bit_at(s) { ...; break } }`
HitsEnd(aut, u) == \E i \in DOMAIN aut.end : bit_at(u, aut.end[i])

(***************************************************************************)
(* automaton_sequential.rs : rabin_scott_seq.  The locals of the function  *)
(* as a record st = [transitions, accept_states, num_mapper, frontier].    *)
(***************************************************************************)
\* SeqStartState with every state of the automaton taken as a start state
SeqStartState_AllStates(aut, arr) ==
    LET start_state == AddStates(arr, UbigNew, [i \in 1..aut.size |-> i - 1])
    IN [transitions   |-> <<>>,
        accept_states |-> IF HitsEnd(aut, start_state) THEN <<0>> ELSE <<>>,
        num_mapper    |-> (compress(start_state) :> 0),
        frontier      |-> <<start_state>>]

\* lines 116-134: the start subset gets id 0 and is queued
SeqStartState(aut, arr) ==
    LET start_state == AddStates(arr, UbigNew, aut.start)
    IN [transitions   |-> <<>>,
        accept_states |-> IF HitsEnd(aut, start_state) THEN <<0>> ELSE <<>>,
        num_mapper    |-> (compress(start_state) :> 0),
        frontier      |-> <<start_state>>]

\* num_mapper.insert(key, num_mapper.len())
MapInsert(m, key) == (key :> Cardinality(DOMAIN m)) @@ m

\* SeqSymbolStep that records the transition only for a newly found subset
SeqSymbolStep_SkipKnown(aut, arr, st, nxt, c) ==
    LET new_s  == NewSubset(arr, nxt, c)
        key    == compress(new_s)
        is_new == key \notin DOMAIN st.num_mapper
        nm     == IF is_new THEN MapInsert(st.num_mapper, key) ELSE st.num_mapper
    IN [transitions   |-> IF is_new
                          THEN Append(st.transitions, <<nm[compress(nxt)], c, nm[key]>>)
                          ELSE st.transitions,
        accept_states |-> IF is_new /\ HitsEnd(aut, new_s)
                          THEN Append(st.accept_states, Cardinality(DOMAIN nm) - 1)
                          ELSE st.accept_states,
        num_mapper    |-> nm,
        frontier      |-> IF is_new THEN Append(st.frontier, new_s) ELSE st.frontier]

\* SeqSymbolStep that records nothing when the successor subset is empty
SeqSymbolStep_NoSink(aut, arr, st, nxt, c) ==
    LET new_s  == NewSubset(arr, nxt, c)
        key    == compress(new_s)
        is_new == key \notin DOMAIN st.num_mapper
        nm     == IF is_new THEN MapInsert(st.num_mapper, key) ELSE st.num_mapper
    IN IF new_s = UbigNew THEN st
       ELSE
       [transitions   |-> Append(st.transitions, <<nm[compress(nxt)], c, nm[key]>>),
        accept_states |-> IF is_new /\ HitsEnd(aut, new_s)
                          THEN Append(st.accept_states, Cardinality(DOMAIN nm) - 1)
                          ELSE st.accept_states,
        num_mapper    |-> nm,
        frontier      |-> IF is_new THEN Append(st.frontier, new_s) ELSE st.frontier]

\* lines 139-162: one symbol c of the dequeued subset `nxt`
SeqSymbolStep(aut, arr, st, nxt, c) ==
    LET new_s  == NewSubset(arr, nxt, c)
        key    == compress(new_s)
        is_new == key \notin DOMAIN st.num_mapper
        nm     == IF is_new THEN MapInsert(st.num_mapper, key) ELSE st.num_mapper
    IN [transitions   |-> Append(st.transitions, <<nm[compress(nxt)], c, nm[key]>>),
        accept_states |-> IF is_new /\ HitsEnd(aut, new_s)
                          THEN Append(st.accept_states, Cardinality(DOMAIN nm) - 1)
                          ELSE st.accept_states,
        num_mapper    |-> nm,
        frontier      |-> IF is_new THEN Append(st.frontier, new_s) ELSE st.frontier]

\* line 165: (transitions, num_mapper.len(), vec![0], accept_states)
SeqResult(st) ==
    [transitions |-> st.transitions, size |-> Cardinality(DOMAIN st.num_mapper),
     start |-> <<0>>, end |-> st.accept_states]

RECURSIVE SeqSymbols(_, _, _, _, _)
\* (1..aut.alphabet + 1).for_each from symbol c on
SeqSymbols(aut, arr, st, nxt, c) ==
    IF c > aut.alphabet THEN st
    ELSE SeqSymbols(aut, arr, SeqSymbolStep(aut, arr, st, nxt, c), nxt, c + 1)

RECURSIVE SeqLoop_Lifo(_, _, _)
\* SeqLoop that takes the newest subset of the frontier (pop_back)
SeqLoop_Lifo(aut, arr, st) ==
    IF st.frontier = <<>> THEN st
    ELSE SeqLoop_Lifo(aut, arr,
                 SeqSymbols(aut, arr,
                            [st EXCEPT !.frontier = SubSeq(st.frontier, 1, Len(st.frontier) - 1)],
                            st.frontier[Len(st.frontier)], 1))

RECURSIVE SeqLoop(_, _, _)
\* while let Some(next) = frontier.pop_front()
SeqLoop(aut, arr, st) ==
    IF st.frontier = <<>> THEN st
    ELSE SeqLoop(aut, arr,
                 SeqSymbols(aut, arr, [st EXCEPT !.frontier = Tail(st.frontier)],
                            Head(st.frontier), 1))

\* rabin_scott_seq as a function of its argument
rabin_scott_seq(aut) ==
    LET arr == get_transition_array(aut)
    IN SeqResult(SeqLoop(aut, arr, SeqStartState(aut, arr)))

(***************************************************************************)
(* automaton_sequential.rs : hopcroft_algo and its helpers.  Blocks and    *)
(* worklist entries are Vec<usize>; block i of the code is p[i + 1] here.  *)
(***************************************************************************)
RECURSIVE SrcList(_, _, _)
\* the sources t.0 of the transitions of `table` with t.2 = d, t.1 = c, in table order
SrcList(table, d, c) ==
    CHOOSE srcs \in {IF tb = <<>> THEN <<>>
                     ELSE IF tb[1][3] = d /\ tb[1][2] = c
                          THEN <<tb[1][1]>> \o SrcList(Tail(tb), d, c)
                          ELSE SrcList(Tail(tb), d, c) : tb \in {table}} : TRUE

\* Automaton::get_reverse_transition_arr : arr[symbol][destination] = sources
get_reverse_transition_arr(m) ==
    [c \in 0..m.alphabet |-> [d \in 0..m.size |-> SrcList(m.table, d, c)]]

RECURSIVE HeapDrain(_)
\* `while let Some(i) = bh.pop()` on a min-heap: the elements in ascending order
HeapDrain(bag) ==
    CHOOSE out \in
        {IF bh = <<>> THEN <<>>
         ELSE CHOOSE o \in {<<bh[k]>> \o HeapDrain(SubSeq(bh, 1, k - 1) \o SubSeq(bh, k + 1, Len(bh))) :
                              k \in {CHOOSE i \in DOMAIN bh : \A j \in DOMAIN bh : bh[i] <= bh[j]}} : TRUE
           : bh \in {bag}} : TRUE

\* Automaton::get_set_from_transitions
get_set_from_transitions(arr, set, c) == HeapDrain(Targets(arr, set, c))

RECURSIVE DiffAndsLoop(_, _, _, _, _, _)
\* the two-cursor scan of get_diff_ands
DiffAndsLoop(u, v, cursor_u, cursor_v, diffs, ands) ==
    IF cursor_u <= Len(u) /\ cursor_v <= Len(v)
    THEN IF u[cursor_u] < v[cursor_v]
         THEN DiffAndsLoop(u, v, cursor_u + 1, cursor_v, Append(diffs, u[cursor_u]), ands)
         ELSE IF u[cursor_u] > v[cursor_v]
              THEN DiffAndsLoop(u, v, cursor_u, cursor_v + 1, diffs, ands)
              ELSE DiffAndsLoop(u, v, cursor_u + 1, cursor_v + 1, diffs,
                                Append(ands, u[cursor_u]))
    ELSE <<diffs \o SubSeq(u, cursor_u, Len(u)), ands>>

\* Automaton::get_diff_ands : <<U \ V, U n V>> of two ordered lists
get_diff_ands(u, v) == DiffAndsLoop(u, v, 1, 1, <<>>, <<>>)

\* Automaton::all_equal
all_equal(u, v) ==
    IF Len(u) # Len(v) THEN FALSE ELSE \A i \in DOMAIN u : u[i] = v[i]

\* the min_by of replace_in_queue: the first entry unless the second is not longer
MinByLen(x, y) == IF Len(x) < Len(y) THEN x ELSE y

\* Automaton::replace_in_queue
replace_in_queue(q, replace, replacement) ==
    LET hits == {i \in DOMAIN q : all_equal(replace, q[i])}
    IN IF hits # {}
       THEN LET k == CHOOSE i \in hits : \A j \in hits : i <= j
            IN [q EXCEPT ![k] = Head(replacement)] \o Tail(replacement)
       ELSE Append(q, MinByLen(replacement[1], replacement[2]))

\* lines 171-181: the initial partition, worklist and state -> block map
HopStartState(m) ==
    LET finals == Range(m.end)
        p0 == <<SelectSeq([i \in 1..m.size |-> i - 1], LAMBDA i : i \notin finals), m.end>>
    IN [p |-> p0, q |-> p0,
        state_partition_map |-> [i \in 0..(m.size - 1) |-> IF i \notin finals THEN 0 ELSE 1]]

\* HopRs that looks at the transitions on symbol 1 whatever the symbol
HopRs_SymbolOne(rev_arr, set, c) == get_set_from_transitions(rev_arr, set, 1)

\* lines 186-190: rs and the blocks its members lie in
HopRs(rev_arr, set, c) == get_set_from_transitions(rev_arr, set, c)

PotentialPartitions(h, rs) == {h.state_partition_map[rs[k]] : k \in DOMAIN rs}

\* HopSplitStep leaving the worklist as it is after a split
HopSplitStep_NoRequeue(h, rs, i) ==
    LET v  == h.p[i + 1]
        da == get_diff_ands(v, rs)
        diffs == da[1]
        ands  == da[2]
    IN IF Len(diffs) > 0 /\ Len(ands) > 0
       THEN [p |-> Append([h.p EXCEPT ![i + 1] = diffs], ands),
             q |-> h.q,
             state_partition_map |->
                 [j \in DOMAIN h.state_partition_map |->
                     IF j \in Range(ands) THEN Len(h.p) ELSE h.state_partition_map[j]]]
       ELSE h

\* HopSplitStep that appends ands and leaves block i as it was
HopSplitStep_KeepBlock(h, rs, i) ==
    LET v  == h.p[i + 1]
        da == get_diff_ands(v, rs)
        diffs == da[1]
        ands  == da[2]
    IN IF Len(diffs) > 0 /\ Len(ands) > 0
       THEN [p |-> Append(h.p, ands),
             q |-> replace_in_queue(h.q, diffs, <<diffs, ands>>),
             state_partition_map |->
                 [j \in DOMAIN h.state_partition_map |->
                     IF j \in Range(ands) THEN Len(h.p) ELSE h.state_partition_map[j]]]
       ELSE h

\* lines 192-206: the closure body for block i
HopSplitStep(h, rs, i) ==
    LET v  == h.p[i + 1]
        da == get_diff_ands(v, rs)
        diffs == da[1]
        ands  == da[2]
    IN IF Len(diffs) > 0 /\ Len(ands) > 0
       THEN [p |-> Append([h.p EXCEPT ![i + 1] = diffs], ands),
             q |-> replace_in_queue(h.q, diffs, <<diffs, ands>>),
             state_partition_map |->
                 [j \in DOMAIN h.state_partition_map |->
                     IF j \in Range(ands) THEN Len(h.p) ELSE h.state_partition_map[j]]]
       ELSE h

\* HopResult returning one block more than p holds
HopResult_ExtraBlock(h) ==
    [ret_map |-> [st \in UNION {Range(h.p[i]) : i \in DOMAIN h.p} |->
                     (CHOOSE i \in DOMAIN h.p :
                         /\ st \in Range(h.p[i])
                         /\ \A j \in DOMAIN h.p : st \in Range(h.p[j]) => j <= i) - 1],
     len |-> Len(h.p) + 1]

\* lines 212-220: (ret_map, p.len()); a state listed in several blocks keeps the last
HopResult(h) ==
    [ret_map |-> [st \in UNION {Range(h.p[i]) : i \in DOMAIN h.p} |->
                     (CHOOSE i \in DOMAIN h.p :
                         /\ st \in Range(h.p[i])
                         /\ \A j \in DOMAIN h.p : st \in Range(h.p[j]) => j <= i) - 1],
     len |-> Len(h.p)]

(***************************************************************************)
(* automaton.rs : Automaton::minimized.                                    *)
(***************************************************************************)
\* lexicographic order on triples, the order of Vec<(usize, usize, usize)>::sort
TripleLeq(x, y) ==
    \/ x[1] < y[1]
    \/ x[1] = y[1] /\ x[2] < y[2]
    \/ x[1] = y[1] /\ x[2] = y[2] /\ x[3] <= y[3]

RECURSIVE SortedTriples(_)
\* collect into a HashSet, then into a Vec, then sort
SortedTriples(S) ==
    CHOOSE out \in
        {IF T = {} THEN <<>>
         ELSE CHOOSE o \in {<<t>> \o SortedTriples(T \ {t}) :
                              t \in {CHOOSE x \in T : \A y \in T : TripleLeq(x, y)}} : TRUE
           : T \in {S}} : TRUE

RECURSIVE SortedNats(_)
SortedNats(S) ==
    CHOOSE out \in
        {IF T = {} THEN <<>>
         ELSE CHOOSE o \in {<<x>> \o SortedNats(T \ {x}) :
                              x \in {CHOOSE z \in T : \A y \in T : z <= y}} : TRUE
           : T \in {S}} : TRUE

\* Automaton::get_part_vec_from_vec followed by sort()
get_part_vec_from_vec(ret_map, list) == SortedNats({ret_map[list[i]] : i \in DOMAIN list})

\* lines 129-153: the automaton built from the state -> block map
MinAutomaton(m, hr) ==
    Automaton("Det", hr.len, m.alphabet,
              SortedTriples({<<hr.ret_map[t[1]], t[2], hr.ret_map[t[3]]>> : t \in Range(m.table)}),
              get_part_vec_from_vec(hr.ret_map, m.start),
              get_part_vec_from_vec(hr.ret_map, m.end))

\* lines 119-123: inputs returned as a clone
MinClones(m) == m.automaton_type = "NonDet" \/ m.size <= 2

(***************************************************************************)
(* hopcroft_algo and minimized() as functions of their argument; the       *)
(* HashSet of candidate blocks is walked in ascending order.               *)
(***************************************************************************)
RECURSIVE HopSplits(_, _, _)
\* lines 191-207: potential_partitions.into_iter().for_each
HopSplits(h, rs, todo) ==
    IF todo = {} THEN h
    ELSE LET i == CHOOSE x \in todo : \A y \in todo : x <= y
         IN HopSplits(HopSplitStep(h, rs, i), rs, todo \ {i})

RECURSIVE HopSymbols(_, _, _, _, _)
\* lines 185-208: for c in 1..aut.alphabet + 1, from symbol c on
HopSymbols(m, rev, h, set, c) ==
    IF c > m.alphabet THEN h
    ELSE LET rs == HopRs(rev, set, c)
         IN HopSymbols(m, rev, HopSplits(h, rs, PotentialPartitions(h, rs)), set, c + 1)

RECURSIVE HopLoop(_, _, _)
\* lines 184-209: while let Some(set) = q.pop_front()
HopLoop(m, rev, h) ==
    IF h.q = <<>> THEN h
    ELSE HopLoop(m, rev, HopSymbols(m, rev, [h EXCEPT !.q = Tail(h.q)], Head(h.q), 1))

hopcroft_algo(m) ==
    HopResult(HopLoop(m, get_reverse_transition_arr(m), HopStartState(m)))

\* Automaton::minimized
minimized(m) == IF MinClones(m) THEN m ELSE MinAutomaton(m, hopcroft_algo(m))

(***************************************************************************)
(* automaton_multithreaded.rs : the helpers of the merge.  The main        *)
(* thread's locals are a record [thread_status, count, threads_reduces,    *)
(* id_state_map, transitions, accept_states].                              *)
(***************************************************************************)
\* add_transition that gives an unseen destination the id len() + 1
add_transition_SkipId(transition, main) ==
    LET s  == transition[1]
        e  == transition[3]
        m1 == IF s \in DOMAIN main.id_state_map
              THEN main.id_state_map ELSE MapInsert(main.id_state_map, s)
        m2 == IF e \in DOMAIN m1 THEN m1 ELSE (e :> (Cardinality(DOMAIN m1) + 1)) @@ m1
    IN [main EXCEPT !.id_state_map = m2,
                    !.transitions = Append(@, <<m2[s], transition[2], m2[e]>>)]

\* add_transition: unseen local ids get the next global id, source first
add_transition(transition, main) ==
    LET s  == transition[1]
        e  == transition[3]
        m1 == IF s \in DOMAIN main.id_state_map
              THEN main.id_state_map ELSE MapInsert(main.id_state_map, s)
        m2 == IF e \in DOMAIN m1 THEN m1 ELSE MapInsert(m1, e)
    IN [main EXCEPT !.id_state_map = m2,
                    !.transitions = Append(@, <<m2[s], transition[2], m2[e]>>)]

\* add_accept
add_accept(s, main) ==
    LET m1 == IF s \in DOMAIN main.id_state_map
              THEN main.id_state_map ELSE MapInsert(main.id_state_map, s)
    IN [main EXCEPT !.id_state_map = m1, !.accept_states = Append(@, m1[s])]

RECURSIVE DrainTransitions(_, _)
\* transition_rx.try_iter().for_each(add_transition)
DrainTransitions(ch, main) ==
    IF ch = <<>> THEN main ELSE DrainTransitions(Tail(ch), add_transition(Head(ch), main))

RECURSIVE DrainAccepts(_, _)
\* accept_rx.try_iter().for_each(add_accept)
DrainAccepts(ch, main) ==
    IF ch = <<>> THEN main ELSE DrainAccepts(Tail(ch), add_accept(Head(ch), main))

\* line 145: (transitions, id_state_map.len(), vec![0], accept_states)
MtResult(main) ==
    [transitions |-> main.transitions, size |-> Cardinality(DOMAIN main.id_state_map),
     start |-> <<0>>, end |-> main.accept_states]

\* lines 221-226: some member of u is an accepting state
HitsEndSet(m, u) == \E s \in Range(get_seq(u)) : s \in Range(m.end)

\* the locals of a worker thread when it is spawned (lines 154-156)
WorkerInit ==
    [pc |-> "lock_own", next |-> <<>>, a |-> 0, new_s |-> <<>>, is_new |-> FALSE,
     id_new |-> 0, hash_next |-> 0, hash_new |-> 0, frontier_empty |-> FALSE,
     local_transitions |-> <<>>, local_accepts |-> <<>>]

\* explore loop line 198: the worker's locals at the end of the body for symbol
\* w.a: on to the next symbol, or back to the worker loop when none is left
NextSymbol(m, w) ==
    IF w.a + 1 <= m.alphabet
    THEN [w EXCEPT !.a = @ + 1, !.pc = "explore"]
    ELSE [WorkerInit EXCEPT !.frontier_empty = w.frontier_empty,
                            !.local_transitions = w.local_transitions,
                            !.local_accepts = w.local_accepts]

(***************************************************************************)
(* Input automata.                                                         *)
(***************************************************************************)
SeqsUpTo(S, n) == UNION {[1..k -> S] : k \in 0..n}

\* the state ids an input with high id h uses
Ids(h) == {0, h}

\* ascending duplicate-free lists over Ids(h)
AccLists(h) == {<<>>, <<0>>, <<h>>, <<0, h>>}

\* start lists: one or two start states, in either order
StartLists(h) == {<<0>>, <<0, h>>, <<h, 0>>}

(***************************************************************************)
(* State.                                                                  *)
(***************************************************************************)
VARIABLES
    aut,             \* the automaton handed to the algorithm
    pc,              \* position in the running function
    transition_arr,  \* rabin_scott_seq: let transition_arr
    transitions,     \* rabin_scott_seq: let mut transitions
    accept_states,   \* rabin_scott_seq: let mut accept_states
    num_mapper,      \* rabin_scott_seq: let mut num_mapper
    frontier,        \* rabin_scott_seq: let mut frontier
    next,            \* rabin_scott_seq: the dequeued subset
    a,               \* rabin_scott_seq: the symbol of the for_each
    rev_arr,         \* hopcroft_algo: let rev_arr
    p,               \* hopcroft_algo: let mut p
    q,               \* hopcroft_algo: let mut q
    state_partition_map, \* hopcroft_algo: let mut state_partition_map
    set,             \* hopcroft_algo: the worklist entry popped
    c,               \* hopcroft_algo: the symbol of the for loop
    rs,              \* hopcroft_algo: let rs
    potential_partitions, \* hopcroft_algo: the blocks still to visit for (set, c)
    prev,            \* <<the automaton a first call of minimized() returned>>, or <<>>
    result,          \* the value the function returned
    n_threads,       \* rabin_scott_mt: the number of shards and worker threads
    nfa,             \* <<the automaton determinized(kind) was called on>>, or <<>>
    num_maps,        \* rabin_scott_mt: per shard, subset -> local id
    frontiers,       \* rabin_scott_mt: per shard, the queue of subsets to expand
    map_locks,       \* per shard, the workers holding the mutex of num_maps[shard]
    frontier_locks,  \* per shard, the workers holding the mutex of frontiers[shard]
    stop_sig,        \* the AtomicBool stop_sig
    frontier_empty_ch, \* channel: (idle?, shard) status messages
    reduce_ch,       \* channel: ids of the workers that sent all their records
    transition_ch,   \* channel: transitions in local ids
    accept_ch,       \* channel: accepting local ids
    tm,              \* per worker, its position and locals
    mt,              \* the main thread's locals
    hashes,          \* the values get_hash returned so far, per subset
    new_ids,         \* how many ids get_new_id handed out
    ubig,            \* a Ubig under test (self / num)
    other,           \* a second Ubig: the other operand of ==, or a clone taken earlier
    op               \* the last operation applied to ubig

seqvars == <<transition_arr, transitions, accept_states, num_mapper, frontier, next, a>>

hopvars == <<rev_arr, p, q, state_partition_map, set, c, rs, potential_partitions, prev>>

mtshared == <<num_maps, frontiers, map_locks, frontier_locks, stop_sig, hashes, new_ids>>

mtchans == <<frontier_empty_ch, reduce_ch, transition_ch, accept_ch>>

mtvars == <<n_threads, nfa, tm, mt, mtshared, mtchans>>

ubvars == <<ubig, other, op>>

vars == <<aut, pc, seqvars, hopvars, result, mtvars, ubvars>>

None == "none"

\* the locals of rabin_scott_seq as one record
SeqSt == [transitions |-> transitions, accept_states |-> accept_states,
          num_mapper |-> num_mapper, frontier |-> frontier]

SetSeqSt(st) ==
    /\ transitions' = st.transitions
    /\ accept_states' = st.accept_states
    /\ num_mapper' = st.num_mapper
    /\ frontier' = st.frontier

\* the locals of hopcroft_algo as one record
HopSt == [p |-> p, q |-> q, state_partition_map |-> state_partition_map]

SetHopSt(h) ==
    /\ p' = h.p
    /\ q' = h.q
    /\ state_partition_map' = h.state_partition_map

HopIdle ==
    /\ rev_arr = None
    /\ p = <<>>
    /\ q = <<>>
    /\ state_partition_map = <<>>
    /\ set = None
    /\ c = 0
    /\ rs = <<>>
    /\ potential_partitions = {}
    /\ prev = <<>>

SeqIdle ==
    /\ transition_arr = None
    /\ transitions = <<>>
    /\ accept_states = <<>>
    /\ num_mapper = <<>>
    /\ frontier = <<>>
    /\ next = None
    /\ a = 0

UbigIdle ==
    /\ ubig = <<>>
    /\ other = <<>>
    /\ op = [name |-> "none"]

MtIdle ==
    /\ n_threads = 0
    /\ nfa = <<>>
    /\ num_maps = <<>>
    /\ frontiers = <<>>
    /\ map_locks = <<>>
    /\ frontier_locks = <<>>
    /\ stop_sig = FALSE
    /\ frontier_empty_ch = <<>>
    /\ reduce_ch = <<>>
    /\ transition_ch = <<>>
    /\ accept_ch = <<>>
    /\ tm = <<>>
    /\ mt = <<>>
    /\ hashes = <<>>
    /\ new_ids = 0

(***************************************************************************)
(* Specification SpecSeq: rabin_scott_seq on every input NFA.              *)
(***************************************************************************)
InitSeq ==
    /\ \E h \in HighIds, al \in Alphabets :
         \E tb \in SeqsUpTo(Ids(h) \X (0..al) \X Ids(h), MaxTrans),
            st \in StartLists(h), en \in AccLists(h) :
              aut = Automaton("NonDet", h + 1, al, tb, st, en)
    /\ pc = "seq_start"
    /\ SeqIdle
    /\ HopIdle
    /\ MtIdle
    /\ UbigIdle
    /\ result = None

\* rabin_scott_seq lines 116-134
SeqStart ==
    /\ pc = "seq_start"
    /\ LET arr == get_transition_array(aut)
       IN /\ transition_arr' = arr
          /\ SetSeqSt(SeqStartState(aut, arr))
    /\ pc' = "seq_pop"
    /\ UNCHANGED <<aut, next, a, result>>
    /\ UNCHANGED <<hopvars, mtvars, ubvars>>

\* SeqPop taking the newest subset (pop_back) instead of the oldest
SeqPop_Lifo ==
    /\ pc = "seq_pop"
    /\ frontier # <<>>
    /\ next' = frontier[Len(frontier)]
    /\ frontier' = SubSeq(frontier, 1, Len(frontier) - 1)
    /\ a' = 1
    /\ pc' = "seq_symbol"
    /\ UNCHANGED <<aut, transition_arr, transitions, accept_states, num_mapper, result>>
    /\ UNCHANGED <<hopvars, mtvars, ubvars>>

\* line 137, Some: frontier.pop_front()
SeqPop ==
    /\ pc = "seq_pop"
    /\ frontier # <<>>
    /\ next' = Head(frontier)
    /\ frontier' = Tail(frontier)
    /\ a' = 1
    /\ pc' = "seq_symbol"
    /\ UNCHANGED <<aut, transition_arr, transitions, accept_states, num_mapper, result>>
    /\ UNCHANGED <<hopvars, mtvars, ubvars>>

\* lines 138-163: the closure body for symbol a
SeqSymbol ==
    /\ pc = "seq_symbol"
    /\ a <= aut.alphabet
    /\ SetSeqSt(SeqSymbolStep(aut, transition_arr, SeqSt, next, a))
    /\ a' = a + 1
    /\ UNCHANGED <<aut, pc, transition_arr, next, result>>
    /\ UNCHANGED <<hopvars, mtvars, ubvars>>

\* the for_each is exhausted: back to the while
SeqSymbolsDone ==
    /\ pc = "seq_symbol"
    /\ a > aut.alphabet
    /\ pc' = "seq_pop"
    /\ UNCHANGED <<aut, seqvars, result>>
    /\ UNCHANGED <<hopvars, mtvars, ubvars>>

\* line 137, None, and line 165
SeqReturn ==
    /\ pc = "seq_pop"
    /\ frontier = <<>>
    /\ result' = SeqResult(SeqSt)
    /\ pc' = "seq_done"
    /\ UNCHANGED <<aut, seqvars>>
    /\ UNCHANGED <<hopvars, mtvars, ubvars>>

NextSeq == SeqStart \/ SeqPop \/ SeqSymbol \/ SeqSymbolsDone \/ SeqReturn

SpecSeq == InitSeq /\ [][NextSeq]_vars

(***************************************************************************)
(* Specification SpecMin: minimized() on every input DFA, and once more    *)
(* on the automaton it returned.                                           *)
(***************************************************************************)
\* <<size, alphabet>> of the complete input DFAs
DfaShapes == {<<2, 1>>, <<3, 1>>, <<3, 2>>, <<4, 1>>}

\* the transition table of delta, one triple per (state, symbol), sorted
DfaTable(n, al, delta) ==
    [k \in 1..(n * al) |->
        <<(k - 1) \div al, ((k - 1) % al) + 1, delta[(k - 1) \div al][((k - 1) % al) + 1]>>]

InitMin ==
    /\ \E sh \in DfaShapes :
         \E delta \in [0..(sh[1] - 1) -> [1..sh[2] -> 0..(sh[1] - 1)]],
            F \in SUBSET (0..(sh[1] - 1)) :
              aut = Automaton("Det", sh[1], sh[2], DfaTable(sh[1], sh[2], delta),
                              <<0>>, SortedNats(F))
    /\ pc = "min_start"
    /\ SeqIdle
    /\ HopIdle
    /\ MtIdle
    /\ UbigIdle
    /\ result = None

\* minimized lines 119-123
MinClone ==
    /\ pc = "min_start"
    /\ MinClones(aut)
    /\ result' = aut
    /\ pc' = "min_done"
    /\ UNCHANGED <<aut, hopvars>>
    /\ UNCHANGED <<seqvars, mtvars, ubvars>>

\* minimized line 125 and hopcroft_algo lines 171-183
HopStart ==
    /\ pc = "min_start"
    /\ ~MinClones(aut)
    /\ SetHopSt(HopStartState(aut))
    /\ rev_arr' = get_reverse_transition_arr(aut)
    /\ pc' = "hop_pop"
    /\ UNCHANGED <<aut, set, c, rs, potential_partitions, prev, result>>
    /\ UNCHANGED <<seqvars, mtvars, ubvars>>

\* HopPop that reads the front of the worklist and leaves it there
HopPop_Peek ==
    /\ pc = "hop_pop"
    /\ q # <<>>
    /\ set' = Head(q)
    /\ q' = q
    /\ c' = 1
    /\ pc' = "hop_symbol"
    /\ UNCHANGED <<aut, rev_arr, p, state_partition_map, rs, potential_partitions, prev, result>>
    /\ UNCHANGED <<seqvars, mtvars, ubvars>>

\* line 184, Some: q.pop_front()
HopPop ==
    /\ pc = "hop_pop"
    /\ q # <<>>
    /\ set' = Head(q)
    /\ q' = Tail(q)
    /\ c' = 1
    /\ pc' = "hop_symbol"
    /\ UNCHANGED <<aut, rev_arr, p, state_partition_map, rs, potential_partitions, prev, result>>
    /\ UNCHANGED <<seqvars, mtvars, ubvars>>

\* lines 185-190: rs and potential_partitions for symbol c
HopSymbol ==
    /\ pc = "hop_symbol"
    /\ c <= aut.alphabet
    /\ rs' = HopRs(rev_arr, set, c)
    /\ potential_partitions' = PotentialPartitions(HopSt, rs')
    /\ pc' = "hop_split"
    /\ UNCHANGED <<aut, rev_arr, p, q, state_partition_map, set, c, prev, result>>
    /\ UNCHANGED <<seqvars, mtvars, ubvars>>

\* lines 191-207: one block of potential_partitions, in the HashSet's order
HopSplit ==
    /\ pc = "hop_split"
    /\ \E i \in potential_partitions :
         /\ SetHopSt(HopSplitStep(HopSt, rs, i))
         /\ potential_partitions' = potential_partitions \ {i}
    /\ UNCHANGED <<aut, pc, rev_arr, set, c, rs, prev, result>>
    /\ UNCHANGED <<seqvars, mtvars, ubvars>>

\* the for_each is exhausted: next symbol
HopSplitsDone ==
    /\ pc = "hop_split"
    /\ potential_partitions = {}
    /\ c' = c + 1
    /\ pc' = "hop_symbol"
    /\ UNCHANGED <<aut, rev_arr, p, q, state_partition_map, set, rs, potential_partitions,
                   prev, result>>
    /\ UNCHANGED <<seqvars, mtvars, ubvars>>

\* the for loop over the symbols is exhausted: back to the while
HopSymbolsDone ==
    /\ pc = "hop_symbol"
    /\ c > aut.alphabet
    /\ pc' = "hop_pop"
    /\ UNCHANGED <<aut, hopvars, result>>
    /\ UNCHANGED <<seqvars, mtvars, ubvars>>

\* line 184, None; lines 212-220; minimized lines 126-153
HopReturn ==
    /\ pc = "hop_pop"
    /\ q = <<>>
    /\ result' = MinAutomaton(aut, HopResult(HopSt))
    /\ pc' = "min_done"
    /\ UNCHANGED <<aut, hopvars>>
    /\ UNCHANGED <<seqvars, mtvars, ubvars>>

\* the caller hands the returned automaton to minimized() again
MinAgain ==
    /\ pc = "min_done"
    /\ prev = <<>>
    /\ prev' = <<result>>
    /\ aut' = result
    /\ pc' = "min_start"
    /\ rev_arr' = None
    /\ p' = <<>>
    /\ q' = <<>>
    /\ state_partition_map' = <<>>
    /\ set' = None
    /\ c' = 0
    /\ rs' = <<>>
    /\ potential_partitions' = {}
    /\ result' = None
    /\ UNCHANGED <<seqvars, mtvars, ubvars>>

NextMin ==
    \/ MinClone \/ HopStart \/ HopPop \/ HopSymbol \/ HopSplit \/ HopSplitsDone
    \/ HopSymbolsDone \/ HopReturn \/ MinAgain

SpecMin == InitMin /\ [][NextMin]_vars

(***************************************************************************)
(* Specification SpecMinFair: minimized() as a sequential program that     *)
(* takes its next step whenever it has one.                                *)
(***************************************************************************)
\* a single thread runs the loops of hopcroft_algo: a step that can be taken is taken
FairMin == WF_vars(NextMin)

SpecMinFair == InitMin /\ [][NextMin]_vars /\ FairMin

(***************************************************************************)
(* Reference semantics of automata, on plain sets, used to state properties.*)
(***************************************************************************)
TableSet(m) == Range(m.table)

RECURSIVE EpsClosure(_, _)
\* least superset of S closed under the symbol-0 transitions of m
EpsClosure(m, S) ==
    LET S2 == S \cup {t[3] : t \in {x \in TableSet(m) : x[1] \in S /\ x[2] = 0}}
    IN IF S2 = S THEN S ELSE EpsClosure(m, S2)

\* the states m can be in after reading symbol sy from a state of S
Move(m, S, sy) ==
    EpsClosure(m, {t[3] : t \in {x \in TableSet(m) : x[1] \in S /\ x[2] = sy}})

StartSet(m) == EpsClosure(m, Range(m.start))

RECURSIVE ReachSets(_, _)
\* the subsets of states of m reached from its start set by some word
ReachSets(m, R) ==
    LET R2 == R \cup {Move(m, S, sy) : S \in R, sy \in 1..m.alphabet}
    IN IF R2 = R THEN R ELSE ReachSets(m, R2)

\* the NFA states some word reaches
ReachableStates(m) == UNION ReachSets(m, {StartSet(m)})

RECURSIVE ReachPairs(_, _, _)
\* the pairs <<S, D>> of state sets that m1 and m2 reach on the same word
ReachPairs(m1, m2, R) ==
    LET R2 == R \cup {<<Move(m1, pr[1], sy), Move(m2, pr[2], sy)>> :
                        pr \in R, sy \in 1..m1.alphabet}
    IN IF R2 = R THEN R ELSE ReachPairs(m1, m2, R2)

\* L(m1) = L(m2): no word is accepted by one and rejected by the other
SameLanguage(m1, m2) ==
    /\ m1.alphabet = m2.alphabet
    /\ \A pr \in ReachPairs(m1, m2, {<<StartSet(m1), StartSet(m2)>>}) :
         (pr[1] \cap Range(m1.end) # {}) <=> (pr[2] \cap Range(m2.end) # {})

\* Automaton::determinized, NonDet branch: the automaton built from the tuple
DetAutomaton(m, r) == Automaton("Det", r.size, m.alphabet, r.transitions, r.start, r.end)

\* determinized that runs the subset construction whatever the kind
determinized_NoClone(m) == DetAutomaton(m, rabin_scott_seq(m))

\* Automaton::determinized, the subset construction run sequentially
determinized(m) ==
    IF m.automaton_type = "Det"
    THEN Automaton("Det", m.size, m.alphabet, m.table, m.start, m.end)
    ELSE DetAutomaton(m, rabin_scott_seq(m))

(***************************************************************************)
(* Specification SpecDet: determinized() on automata of either kind, and   *)
(* once more on the automaton it returned.  The inputs are the NFAs of     *)
(* SpecSeq and the complete DFAs of SpecMin, each under both kind tags.    *)
(***************************************************************************)
AutomatonTypes == {"NonDet", "Det"}

InitDet ==
    /\ \E type \in AutomatonTypes :
         \/ \E h \in HighIds, al \in Alphabets :
              \E tb \in SeqsUpTo(Ids(h) \X (0..al) \X Ids(h), MaxTrans),
                 st \in StartLists(h), en \in AccLists(h) :
                   aut = Automaton(type, h + 1, al, tb, st, en)
         \/ \E sh \in DfaShapes :
              \E delta \in [0..(sh[1] - 1) -> [1..sh[2] -> 0..(sh[1] - 1)]],
                 F \in SUBSET (0..(sh[1] - 1)) :
                   aut = Automaton(type, sh[1], sh[2], DfaTable(sh[1], sh[2], delta),
                                   <<0>>, SortedNats(F))
    /\ pc = "det_start"
    /\ SeqIdle
    /\ HopIdle
    /\ MtIdle
    /\ UbigIdle
    /\ result = None

\* let new_dfa = automaton.determinized(..)
Determinize ==
    /\ pc = "det_start"
    /\ result' = determinized(aut)
    /\ pc' = "det_done"
    /\ UNCHANGED <<aut, seqvars, hopvars, mtvars, ubvars>>

\* determinized() called on the automaton the first call returned
DeterminizeAgain ==
    /\ pc = "det_done"
    /\ prev = <<>>
    /\ prev' = <<result>>
    /\ result' = determinized(result)
    /\ pc' = "det_again"
    /\ UNCHANGED <<aut, rev_arr, p, q, state_partition_map, set, c, rs, potential_partitions>>
    /\ UNCHANGED <<seqvars, mtvars, ubvars>>

NextDet == Determinize \/ DeterminizeAgain

SpecDet == InitDet /\ [][NextDet]_vars

(***************************************************************************)
(* Specification SpecUbig: the operations of ubig.rs on one Ubig, with a   *)
(* second Ubig cloned from it at some earlier point.                       *)
(***************************************************************************)
\* the bit indices used: two bits of the first storage byte, two of the second
BitIds == {0, 1, 8, 10}

\* the duplicate-free lists over BitIds, in any order
BitLists == {s \in SeqsUpTo(BitIds, Cardinality(BitIds)) :
               \A i, j \in DOMAIN s : s[i] = s[j] => i = j}

InitUbig ==
    /\ aut = None
    /\ pc = "ubig"
    /\ result = None
    /\ SeqIdle
    /\ HopIdle
    /\ MtIdle
    /\ UbigIdle

\* Ubig::new()
UbigCreate ==
    /\ pc = "ubig"
    /\ ubig' = UbigNew
    /\ op' = [name |-> "new"]
    /\ UNCHANGED <<aut, pc, result, other, seqvars, hopvars, mtvars>>

\* ubig.set_to(&i, v)
UbigSetTo ==
    /\ pc = "ubig"
    /\ \E i \in BitIds, v \in BOOLEAN :
         /\ ubig' = set_to(ubig, i, v)
         /\ op' = [name |-> "set_to", bit |-> i, val |-> v]
    /\ UNCHANGED <<aut, pc, result, other, seqvars, hopvars, mtvars>>

\* Ubig::from_seq(&bit_list)
UbigFromSeq ==
    /\ pc = "ubig"
    /\ \E bit_list \in BitLists :
         /\ ubig' = from_seq(bit_list)
         /\ op' = [name |-> "from_seq", seq |-> bit_list]
    /\ UNCHANGED <<aut, pc, result, other, seqvars, hopvars, mtvars>>

\* ubig.clone()
UbigClone ==
    /\ pc = "ubig"
    /\ other' = ubig
    /\ op' = [name |-> "clone"]
    /\ UNCHANGED <<aut, pc, result, ubig, seqvars, hopvars, mtvars>>

NextUbig == UbigCreate \/ UbigSetTo \/ UbigFromSeq \/ UbigClone

SpecUbig == InitUbig /\ [][NextUbig]_vars

(***************************************************************************)
(* Specification SpecAddState: add_state called again and again on a Ubig  *)
(* that starts empty, as rabin_scott_seq builds its subsets.  `other` is   *)
(* the Ubig before the last call.                                          *)
(***************************************************************************)
\* the state ids of the automata add_state runs on
ClosureIds == {0, 1, 10}

InitAddState ==
    /\ \E tb \in SeqsUpTo(ClosureIds \X (0..1) \X ClosureIds, MaxTrans) :
         aut = Automaton("NonDet", 1 + (CHOOSE x \in ClosureIds : \A y \in ClosureIds : y <= x),
                         1, tb, <<>>, <<>>)
    /\ pc = "add_state"
    /\ result = None
    /\ SeqIdle
    /\ HopIdle
    /\ MtIdle
    /\ UbigIdle

\* aut.add_state(&transition_arr, &mut num, bit)
AddState ==
    /\ pc = "add_state"
    /\ \E b \in ClosureIds :
         /\ ubig' = add_state(get_transition_array(aut), ubig, b)
         /\ op' = [name |-> "add_state", bit |-> b]
    /\ other' = ubig
    /\ UNCHANGED <<aut, pc, result, seqvars, hopvars, mtvars>>

NextAddState == AddState

SpecAddState == InitAddState /\ [][NextAddState]_vars

(***************************************************************************)
(* Specification SpecMT: rabin_scott_mt, its worker threads and the main   *)
(* thread's merge, then minimized() on the automaton determinized()        *)
(* returned (main.rs: automaton.determinized(mode) ... new_dfa.minimized()).*)
(* get_hash is an unknown function of the subset's bytes: its value for a  *)
(* subset is chosen when the subset is first hashed and kept from then on. *)
(* get_new_id draws a random id: it is taken to be fresh.                  *)
(***************************************************************************)
\* shard counts K
ThreadCounts == {1, 2}

\* state ids of the input NFAs of the parallel determinizer
MtIds == {0, 1, 2}

\* the successor on symbol 1 of the states 0, 1, 2: a chain into a loop, a cycle
MtDeltas == {<<1, 2, 2>>, <<1, 2, 0>>}

\* transitions added to that table: none, or an epsilon move from the start
MtExtras == {<<>>, <<<<0, 0, 1>>>>}

MtStartLists == {<<0>>, <<0, 2>>}

MtAccLists == {<<1, 2>>, <<2>>}

\* the table of the successor tuple d, in state order
MtTable(d) == [k \in 1..Len(d) |-> <<k - 1, 1, d[k]>>]

Shards == 0..(n_threads - 1)

InitMT ==
    /\ \E d \in MtDeltas, ex \in MtExtras, st \in MtStartLists, en \in MtAccLists :
            aut = Automaton("NonDet", Cardinality(MtIds), 1, MtTable(d) \o ex, st, en)
    /\ n_threads \in ThreadCounts
    /\ pc = "mt_start"
    /\ SeqIdle
    /\ HopIdle
    /\ UbigIdle
    /\ result = None
    /\ nfa = <<>>
    /\ num_maps = <<>>
    /\ frontiers = <<>>
    /\ map_locks = <<>>
    /\ frontier_locks = <<>>
    /\ stop_sig = FALSE
    /\ frontier_empty_ch = <<>>
    /\ reduce_ch = <<>>
    /\ transition_ch = <<>>
    /\ accept_ch = <<>>
    /\ tm = [j \in Shards |-> [WorkerInit EXCEPT !.pc = "unspawned"]]
    /\ mt = <<>>
    /\ hashes = <<>>
    /\ new_ids = 0

\* what no worker step changes
WorkerFrame == UNCHANGED <<aut, pc, result, seqvars, hopvars, ubvars, n_threads, nfa, mt>>

\* what no step of the main thread's loops changes
MainFrame ==
    UNCHANGED <<aut, result, seqvars, hopvars, ubvars, n_threads, nfa, tm, num_maps, frontiers,
                map_locks, frontier_locks, hashes, new_ids>>

\* rabin_scott_mt lines 46-110: the start subset, then the workers are spawned
MtStart ==
    /\ pc = "mt_start"
    /\ LET start_state == AddStates(get_transition_array(aut), UbigNew, aut.start)
       IN /\ \E start_hash \in Shards :
               /\ hashes' = (start_state :> start_hash)
               /\ num_maps' = [j \in Shards |->
                                 IF j = start_hash THEN (start_state :> 0) ELSE <<>>]
               /\ frontiers' = [j \in Shards |->
                                  IF j = start_hash THEN <<start_state>> ELSE <<>>]
          /\ mt' = [thread_status   |-> [j \in Shards |-> FALSE],
                    count           |-> n_threads,
                    threads_reduces |-> [j \in Shards |-> FALSE],
                    id_state_map    |-> (0 :> 0),
                    transitions     |-> <<>>,
                    accept_states   |-> IF HitsEnd(aut, start_state) THEN <<0>> ELSE <<>>]
    /\ tm' = [j \in Shards |-> WorkerInit]
    /\ map_locks' = [j \in Shards |-> {}]
    /\ frontier_locks' = [j \in Shards |-> {}]
    /\ pc' = "mt_recv"
    /\ UNCHANGED <<aut, result, seqvars, hopvars, ubvars, n_threads, nfa, stop_sig, new_ids, mtchans>>

\* worker line 159: tm.frontiers[tm.i].lock()
WLockFrontier(i) ==
    /\ tm[i].pc = "lock_own"
    /\ frontier_locks[i] = {}
    /\ frontier_locks' = [frontier_locks EXCEPT ![i] = {i}]
    /\ tm' = [tm EXCEPT ![i].pc = "pop"]
    /\ WorkerFrame
    /\ UNCHANGED <<num_maps, frontiers, map_locks, stop_sig, hashes, new_ids, mtchans>>

\* WPopSome that drops the popped subset instead of exploring it
WPopSome_NoExplore(i) ==
    /\ tm[i].pc = "pop"
    /\ frontiers[i] # <<>>
    /\ frontiers' = [frontiers EXCEPT ![i] = Tail(@)]
    /\ frontier_empty_ch' = IF tm[i].frontier_empty
                            THEN Append(frontier_empty_ch, <<FALSE, i>>)
                            ELSE frontier_empty_ch
    /\ frontier_locks' = [frontier_locks EXCEPT ![i] = {}]
    /\ tm' = [tm EXCEPT ![i] = [@ EXCEPT !.frontier_empty = FALSE, !.pc = "lock_own"]]
    /\ WorkerFrame
    /\ UNCHANGED <<num_maps, map_locks, stop_sig, hashes, new_ids,
                   reduce_ch, transition_ch, accept_ch>>

\* worker lines 160-166: a subset was popped; a worker that reported idle reports busy
WPopSome(i) ==
    /\ tm[i].pc = "pop"
    /\ frontiers[i] # <<>>
    /\ frontiers' = [frontiers EXCEPT ![i] = Tail(@)]
    /\ frontier_empty_ch' = IF tm[i].frontier_empty
                            THEN Append(frontier_empty_ch, <<FALSE, i>>)
                            ELSE frontier_empty_ch
    /\ frontier_locks' = [frontier_locks EXCEPT ![i] = {}]
    /\ tm' = [tm EXCEPT ![i] = NextSymbol(aut, [@ EXCEPT !.next = Head(frontiers[i]),
                                                         !.frontier_empty = FALSE,
                                                         !.a = 0])]
    /\ WorkerFrame
    /\ UNCHANGED <<num_maps, map_locks, stop_sig, hashes, new_ids,
                   reduce_ch, transition_ch, accept_ch>>

\* worker lines 173-176: nothing to pop for the first time: report idle
WPopNoneReport(i) ==
    /\ tm[i].pc = "pop"
    /\ frontiers[i] = <<>>
    /\ ~tm[i].frontier_empty
    /\ frontier_empty_ch' = Append(frontier_empty_ch, <<TRUE, i>>)
    /\ frontier_locks' = [frontier_locks EXCEPT ![i] = {}]
    /\ tm' = [tm EXCEPT ![i] = [@ EXCEPT !.frontier_empty = TRUE, !.pc = "lock_own"]]
    /\ WorkerFrame
    /\ UNCHANGED <<num_maps, frontiers, map_locks, stop_sig, hashes, new_ids,
                   reduce_ch, transition_ch, accept_ch>>

\* worker line 177, stop_sig not set: next turn of the loop
WPopNoneSpin(i) ==
    /\ tm[i].pc = "pop"
    /\ frontiers[i] = <<>>
    /\ tm[i].frontier_empty
    /\ ~stop_sig
    /\ frontier_locks' = [frontier_locks EXCEPT ![i] = {}]
    /\ tm' = [tm EXCEPT ![i].pc = "lock_own"]
    /\ WorkerFrame
    /\ UNCHANGED <<num_maps, frontiers, map_locks, stop_sig, hashes, new_ids, mtchans>>

\* worker line 177, stop_sig set: go on to send the local records
WPopNoneStop(i) ==
    /\ tm[i].pc = "pop"
    /\ frontiers[i] = <<>>
    /\ tm[i].frontier_empty
    /\ stop_sig
    /\ tm' = [tm EXCEPT ![i].pc = "flush"]
    /\ WorkerFrame
    /\ UNCHANGED <<mtshared, mtchans>>

\* worker lines 178-180: one transition_tx.send
WFlushTransition(i) ==
    /\ tm[i].pc = "flush"
    /\ tm[i].local_transitions # <<>>
    /\ transition_ch' = Append(transition_ch, Head(tm[i].local_transitions))
    /\ tm' = [tm EXCEPT ![i].local_transitions = Tail(@)]
    /\ WorkerFrame
    /\ UNCHANGED <<mtshared, frontier_empty_ch, reduce_ch, accept_ch>>

\* worker lines 181-183: one accept_tx.send
WFlushAccept(i) ==
    /\ tm[i].pc = "flush"
    /\ tm[i].local_transitions = <<>>
    /\ tm[i].local_accepts # <<>>
    /\ accept_ch' = Append(accept_ch, Head(tm[i].local_accepts))
    /\ tm' = [tm EXCEPT ![i].local_accepts = Tail(@)]
    /\ WorkerFrame
    /\ UNCHANGED <<mtshared, frontier_empty_ch, reduce_ch, transition_ch>>

\* worker line 184 without the send: the worker leaves without reporting
WReduce_NoSend(i) ==
    /\ tm[i].pc = "flush"
    /\ tm[i].local_transitions = <<>>
    /\ tm[i].local_accepts = <<>>
    /\ frontier_locks' = [frontier_locks EXCEPT ![i] = {}]
    /\ tm' = [tm EXCEPT ![i].pc = "exited"]
    /\ WorkerFrame
    /\ UNCHANGED <<num_maps, frontiers, map_locks, stop_sig, hashes, new_ids, mtchans>>

\* worker lines 184-185: reduce_tx.send(tm.i); break (the frontier guard is dropped)
WReduce(i) ==
    /\ tm[i].pc = "flush"
    /\ tm[i].local_transitions = <<>>
    /\ tm[i].local_accepts = <<>>
    /\ reduce_ch' = Append(reduce_ch, i)
    /\ frontier_locks' = [frontier_locks EXCEPT ![i] = {}]
    /\ tm' = [tm EXCEPT ![i].pc = "exited"]
    /\ WorkerFrame
    /\ UNCHANGED <<num_maps, frontiers, map_locks, stop_sig, hashes, new_ids,
                   frontier_empty_ch, transition_ch, accept_ch>>

\* explore loop lines 198-210: the successor subset on symbol a, the two hashes,
\* and tm.num_maps[hash_new].lock()
WLockMapNew(i) ==
    /\ tm[i].pc = "explore"
    /\ LET new_s == NewSubset(get_transition_array(aut), tm[i].next, tm[i].a)
       IN \E hash_new \in Shards :
            /\ new_s \in DOMAIN hashes => hash_new = hashes[new_s]
            /\ hashes' = IF new_s \in DOMAIN hashes THEN hashes
                         ELSE (new_s :> hash_new) @@ hashes
            /\ map_locks[hash_new] = {}
            /\ map_locks' = [map_locks EXCEPT ![hash_new] = {i}]
            /\ tm' = [tm EXCEPT ![i] = [@ EXCEPT !.new_s = new_s,
                                                 !.hash_next = hashes[tm[i].next],
                                                 !.hash_new = hash_new,
                                                 !.pc = "map_new"]]
    /\ WorkerFrame
    /\ UNCHANGED <<num_maps, frontiers, frontier_locks, stop_sig, new_ids, mtchans>>

\* WMapNew without drop(num_map_new): the guard of the successor's map is kept
WMapNew_KeepLock(i) ==
    /\ tm[i].pc = "map_new"
    /\ LET hn     == tm[i].hash_new
           is_new == tm[i].new_s \notin DOMAIN num_maps[hn]
           nm     == IF is_new THEN (tm[i].new_s :> (new_ids + 1)) @@ num_maps[hn]
                     ELSE num_maps[hn]
       IN /\ num_maps' = [num_maps EXCEPT ![hn] = nm]
          /\ new_ids' = IF is_new THEN new_ids + 1 ELSE new_ids
          /\ tm' = [tm EXCEPT ![i] = [@ EXCEPT !.is_new = is_new,
                                               !.id_new = nm[tm[i].new_s],
                                               !.pc = "lock_next"]]
    /\ WorkerFrame
    /\ UNCHANGED <<frontiers, map_locks, frontier_locks, stop_sig, hashes, mtchans>>

\* WMapNew that takes every successor for absent and gives it a new id
WMapNew_AlwaysNew(i) ==
    /\ tm[i].pc = "map_new"
    /\ LET hn == tm[i].hash_new
           nm == (tm[i].new_s :> (new_ids + 1)) @@ num_maps[hn]
       IN /\ num_maps' = [num_maps EXCEPT ![hn] = nm]
          /\ new_ids' = new_ids + 1
          /\ map_locks' = [map_locks EXCEPT ![hn] = {}]
          /\ tm' = [tm EXCEPT ![i] = [@ EXCEPT !.is_new = TRUE,
                                               !.id_new = nm[tm[i].new_s],
                                               !.pc = "lock_next"]]
    /\ WorkerFrame
    /\ UNCHANGED <<frontiers, frontier_locks, stop_sig, hashes, mtchans>>

\* explore loop lines 211-216: look the successor up, insert it with a new id if absent
WMapNew(i) ==
    /\ tm[i].pc = "map_new"
    /\ LET hn     == tm[i].hash_new
           is_new == tm[i].new_s \notin DOMAIN num_maps[hn]
           nm     == IF is_new THEN (tm[i].new_s :> (new_ids + 1)) @@ num_maps[hn]
                     ELSE num_maps[hn]
       IN /\ num_maps' = [num_maps EXCEPT ![hn] = nm]
          /\ new_ids' = IF is_new THEN new_ids + 1 ELSE new_ids
          /\ map_locks' = [map_locks EXCEPT ![hn] = {}]
          /\ tm' = [tm EXCEPT ![i] = [@ EXCEPT !.is_new = is_new,
                                               !.id_new = nm[tm[i].new_s],
                                               !.pc = "lock_next"]]
    /\ WorkerFrame
    /\ UNCHANGED <<frontiers, frontier_locks, stop_sig, hashes, mtchans>>

\* explore loop line 218: tm.num_maps[hash_next].lock()
WLockMapNext(i) ==
    /\ tm[i].pc = "lock_next"
    /\ map_locks[tm[i].hash_next] = {}
    /\ map_locks' = [map_locks EXCEPT ![tm[i].hash_next] = {i}]
    /\ tm' = [tm EXCEPT ![i].pc = "map_next"]
    /\ WorkerFrame
    /\ UNCHANGED <<num_maps, frontiers, frontier_locks, stop_sig, hashes, new_ids, mtchans>>

\* explore loop lines 218-226: the id of the expanded subset, the local records
WMapNext(i) ==
    /\ tm[i].pc = "map_next"
    /\ LET id_next == num_maps[tm[i].hash_next][tm[i].next]
           w == [tm[i] EXCEPT
                   !.local_transitions = Append(@, <<id_next, tm[i].a, tm[i].id_new>>),
                   !.local_accepts = IF tm[i].is_new /\ HitsEndSet(aut, tm[i].new_s)
                                     THEN Append(@, tm[i].id_new) ELSE @]
       IN tm' = [tm EXCEPT ![i] = IF tm[i].is_new THEN [w EXCEPT !.pc = "lock_front"]
                                  ELSE NextSymbol(aut, w)]
    /\ map_locks' = [map_locks EXCEPT ![tm[i].hash_next] = {}]
    /\ WorkerFrame
    /\ UNCHANGED <<num_maps, frontiers, frontier_locks, stop_sig, hashes, new_ids, mtchans>>

\* explore loop line 227: tm.frontiers[hash_new].lock()
WLockFrontierNew(i) ==
    /\ tm[i].pc = "lock_front"
    /\ frontier_locks[tm[i].hash_new] = {}
    /\ frontier_locks' = [frontier_locks EXCEPT ![tm[i].hash_new] = {i}]
    /\ tm' = [tm EXCEPT ![i].pc = "push"]
    /\ WorkerFrame
    /\ UNCHANGED <<num_maps, frontiers, map_locks, stop_sig, hashes, new_ids, mtchans>>

\* WPush without the busy report for an empty target queue
WPush_NoReport(i) ==
    /\ tm[i].pc = "push"
    /\ LET hn == tm[i].hash_new
       IN /\ frontiers' = [frontiers EXCEPT ![hn] = Append(@, tm[i].new_s)]
          /\ frontier_locks' = [frontier_locks EXCEPT ![hn] = {}]
    /\ tm' = [tm EXCEPT ![i] = NextSymbol(aut, tm[i])]
    /\ WorkerFrame
    /\ UNCHANGED <<num_maps, map_locks, stop_sig, hashes, new_ids, mtchans>>

\* WPush with a busy report for the target shard at every push
WPush_AlwaysReport(i) ==
    /\ tm[i].pc = "push"
    /\ LET hn == tm[i].hash_new
       IN /\ frontier_empty_ch' = Append(frontier_empty_ch, <<FALSE, hn>>)
          /\ frontiers' = [frontiers EXCEPT ![hn] = Append(@, tm[i].new_s)]
          /\ frontier_locks' = [frontier_locks EXCEPT ![hn] = {}]
    /\ tm' = [tm EXCEPT ![i] = NextSymbol(aut, tm[i])]
    /\ WorkerFrame
    /\ UNCHANGED <<num_maps, map_locks, stop_sig, hashes, new_ids,
                   reduce_ch, transition_ch, accept_ch>>

\* WPush that pushes the new subset on the worker's own queue
WPush_OwnQueue(i) ==
    /\ tm[i].pc = "push"
    /\ frontier_empty_ch' = IF Len(frontiers[i]) = 0
                            THEN Append(frontier_empty_ch, <<FALSE, i>>)
                            ELSE frontier_empty_ch
    /\ frontiers' = [frontiers EXCEPT ![i] = Append(@, tm[i].new_s)]
    /\ frontier_locks' = [frontier_locks EXCEPT ![tm[i].hash_new] = {}]
    /\ tm' = [tm EXCEPT ![i] = NextSymbol(aut, tm[i])]
    /\ WorkerFrame
    /\ UNCHANGED <<num_maps, map_locks, stop_sig, hashes, new_ids,
                   reduce_ch, transition_ch, accept_ch>>

\* explore loop lines 228-232: report the target shard busy if its queue is empty, push
WPush(i) ==
    /\ tm[i].pc = "push"
    /\ LET hn == tm[i].hash_new
       IN /\ frontier_empty_ch' = IF Len(frontiers[hn]) = 0
                                  THEN Append(frontier_empty_ch, <<FALSE, hn>>)
                                  ELSE frontier_empty_ch
          /\ frontiers' = [frontiers EXCEPT ![hn] = Append(@, tm[i].new_s)]
          /\ frontier_locks' = [frontier_locks EXCEPT ![hn] = {}]
    /\ tm' = [tm EXCEPT ![i] = NextSymbol(aut, tm[i])]
    /\ WorkerFrame
    /\ UNCHANGED <<num_maps, map_locks, stop_sig, hashes, new_ids,
                   reduce_ch, transition_ch, accept_ch>>

\* main thread lines 111-122: one status message
CRecv ==
    /\ pc = "mt_recv"
    /\ frontier_empty_ch # <<>>
    /\ LET empty   == Head(frontier_empty_ch)[1]
           id      == Head(frontier_empty_ch)[2]
           changed == mt.thread_status[id] # empty
           count   == IF changed THEN mt.count + (IF empty THEN -1 ELSE 1) ELSE mt.count
           stop    == changed /\ count = 0
       IN /\ mt' = [mt EXCEPT !.thread_status[id] = empty,
                              !.count = IF stop THEN n_threads ELSE count]
          /\ stop_sig' = stop
          /\ pc' = IF stop THEN "mt_merge_t" ELSE "mt_recv"
    /\ frontier_empty_ch' = Tail(frontier_empty_ch)
    /\ MainFrame
    /\ UNCHANGED <<reduce_ch, transition_ch, accept_ch>>

\* main thread lines 125-127: transition_rx.try_recv()
CMergeTransition ==
    /\ pc = "mt_merge_t"
    /\ IF transition_ch # <<>>
       THEN /\ mt' = add_transition(Head(transition_ch), mt)
            /\ transition_ch' = Tail(transition_ch)
       ELSE UNCHANGED <<mt, transition_ch>>
    /\ pc' = "mt_merge_a"
    /\ MainFrame
    /\ UNCHANGED <<stop_sig, frontier_empty_ch, reduce_ch, accept_ch>>

\* main thread lines 128-130: accept_rx.try_recv()
CMergeAccept ==
    /\ pc = "mt_merge_a"
    /\ IF accept_ch # <<>>
       THEN /\ mt' = add_accept(Head(accept_ch), mt)
            /\ accept_ch' = Tail(accept_ch)
       ELSE UNCHANGED <<mt, accept_ch>>
    /\ pc' = "mt_merge_r"
    /\ MainFrame
    /\ UNCHANGED <<stop_sig, frontier_empty_ch, reduce_ch, transition_ch>>

\* main thread lines 131-136 and the loop test of line 124
CMergeReduce ==
    /\ pc = "mt_merge_r"
    /\ IF reduce_ch # <<>>
       THEN /\ mt' = IF mt.threads_reduces[Head(reduce_ch)] THEN mt
                     ELSE [mt EXCEPT !.count = @ - 1,
                                     !.threads_reduces[Head(reduce_ch)] = TRUE]
            /\ reduce_ch' = Tail(reduce_ch)
       ELSE UNCHANGED <<mt, reduce_ch>>
    /\ pc' = IF mt'.count > 0 THEN "mt_merge_t" ELSE "mt_drain"
    /\ MainFrame
    /\ UNCHANGED <<stop_sig, frontier_empty_ch, transition_ch, accept_ch>>

\* CDrain that empties the transition channel only
CDrain_TransitionsOnly ==
    /\ pc = "mt_drain"
    /\ \A i \in Shards : tm[i].pc = "exited"
    /\ mt' = DrainTransitions(transition_ch, mt)
    /\ result' = MtResult(mt')
    /\ transition_ch' = <<>>
    /\ accept_ch' = <<>>
    /\ pc' = "mt_done"
    /\ UNCHANGED <<aut, seqvars, hopvars, ubvars, n_threads, nfa, tm, mtshared,
                   frontier_empty_ch, reduce_ch>>

\* CDrain returning without draining what the channels still hold
CDrain_NoDrain ==
    /\ pc = "mt_drain"
    /\ \A i \in Shards : tm[i].pc = "exited"
    /\ mt' = mt
    /\ result' = MtResult(mt')
    /\ transition_ch' = <<>>
    /\ accept_ch' = <<>>
    /\ pc' = "mt_done"
    /\ UNCHANGED <<aut, seqvars, hopvars, ubvars, n_threads, nfa, tm, mtshared,
                   frontier_empty_ch, reduce_ch>>

\* main thread lines 138-145: drain both channels, join the workers, return
CDrain ==
    /\ pc = "mt_drain"
    /\ \A i \in Shards : tm[i].pc = "exited"
    /\ mt' = DrainAccepts(accept_ch, DrainTransitions(transition_ch, mt))
    /\ result' = MtResult(mt')
    /\ transition_ch' = <<>>
    /\ accept_ch' = <<>>
    /\ pc' = "mt_done"
    /\ UNCHANGED <<aut, seqvars, hopvars, ubvars, n_threads, nfa, tm, mtshared,
                   frontier_empty_ch, reduce_ch>>

\* main.rs lines 173-178: the automaton determinized(mode) built goes to minimized()
MtToMin ==
    /\ pc = "mt_done"
    /\ nfa' = <<aut>>
    /\ aut' = DetAutomaton(aut, result)
    /\ result' = None
    /\ pc' = "min_start"
    /\ UNCHANGED <<seqvars, hopvars, ubvars, n_threads, tm, mt, mtshared, mtchans>>

NextMT ==
    \/ MtStart
    \/ \E i \in Shards : WLockFrontier(i)
    \/ \E i \in Shards : WPopSome(i)
    \/ \E i \in Shards : WPopNoneReport(i)
    \/ \E i \in Shards : WPopNoneSpin(i)
    \/ \E i \in Shards : WPopNoneStop(i)
    \/ \E i \in Shards : WFlushTransition(i)
    \/ \E i \in Shards : WFlushAccept(i)
    \/ \E i \in Shards : WReduce(i)
    \/ \E i \in Shards : WLockMapNew(i)
    \/ \E i \in Shards : WMapNew(i)
    \/ \E i \in Shards : WLockMapNext(i)
    \/ \E i \in Shards : WMapNext(i)
    \/ \E i \in Shards : WLockFrontierNew(i)
    \/ \E i \in Shards : WPush(i)
    \/ CRecv \/ CMergeTransition \/ CMergeAccept \/ CMergeReduce \/ CDrain
    \/ MtToMin
    \/ MinClone \/ HopStart \/ HopPop \/ HopSymbol \/ HopSplit \/ HopSplitsDone
    \/ HopSymbolsDone \/ HopReturn

SpecMT == InitMT /\ [][NextMT]_vars

(***************************************************************************)
(* SpecMTFair: rabin_scott_mt alone, under fair scheduling.  Every thread  *)
(* is an operating-system thread: the main thread takes its next step      *)
(* whenever it stays able to, and a worker, which may wait for a mutex     *)
(* that another thread takes and releases over and over, takes its next    *)
(* step if it is able to again and again.                                  *)
(***************************************************************************)
\* the ids a worker can have under some shard count
WorkerIds == UNION {0..(k - 1) : k \in ThreadCounts}

\* one step of worker i
Worker(i) ==
    /\ i \in Shards
    /\ \/ WLockFrontier(i) \/ WPopSome(i) \/ WPopNoneReport(i) \/ WPopNoneSpin(i)
       \/ WPopNoneStop(i) \/ WFlushTransition(i) \/ WFlushAccept(i) \/ WReduce(i)
       \/ WLockMapNew(i) \/ WMapNew(i) \/ WLockMapNext(i) \/ WMapNext(i)
       \/ WLockFrontierNew(i) \/ WPush(i)

\* one step of the main thread's loops
Coordinator == CRecv \/ CMergeTransition \/ CMergeAccept \/ CMergeReduce \/ CDrain

NextMTOnly ==
    \/ MtStart
    \/ \E i \in Shards : Worker(i)
    \/ Coordinator

FairMT ==
    /\ WF_vars(MtStart)
    /\ WF_vars(Coordinator)
    /\ \A i \in WorkerIds : SF_vars(Worker(i))

\* the inputs of SpecMT with one start state and one accepting state
InitMTFair == InitMT /\ Len(aut.start) = 1 /\ Len(aut.end) = 1

SpecMTFair == InitMTFair /\ [][NextMTOnly]_vars /\ FairMT

(***************************************************************************)
(* SpecMTRace: rabin_scott_mt on an input over two symbols, where two      *)
(* subsets expanded at the same time have the same successor.              *)
(***************************************************************************)
\* symbol 1 leads from state 0 to state 1 and nothing else is defined: the
\* subsets {0} and {1} both lead to the empty subset, {0} on symbol 2 and {1}
\* on either symbol, and {1} is queued while {0} is still being expanded
RaceTable == <<<<0, 1, 1>>>>

InitMTRace ==
    /\ aut = Automaton("NonDet", Cardinality(MtIds), Cardinality(Alphabets), RaceTable, <<0>>, <<1>>)
    /\ n_threads \in ThreadCounts
    /\ pc = "mt_start"
    /\ SeqIdle
    /\ HopIdle
    /\ UbigIdle
    /\ result = None
    /\ nfa = <<>>
    /\ num_maps = <<>>
    /\ frontiers = <<>>
    /\ map_locks = <<>>
    /\ frontier_locks = <<>>
    /\ stop_sig = FALSE
    /\ frontier_empty_ch = <<>>
    /\ reduce_ch = <<>>
    /\ transition_ch = <<>>
    /\ accept_ch = <<>>
    /\ tm = [j \in Shards |-> [WorkerInit EXCEPT !.pc = "unspawned"]]
    /\ mt = <<>>
    /\ hashes = <<>>
    /\ new_ids = 0

SpecMTRace == InitMTRace /\ [][NextMTOnly]_vars

(***************************************************************************)
(* Specification SpecSeqMT: the two determinizers side by side, a run of   *)
(* rabin_scott_seq or a run of rabin_scott_mt on each of their inputs.     *)
(***************************************************************************)
InitSeqMT == InitSeq \/ InitMT

NextSeqMT == NextSeq \/ NextMTOnly

SpecSeqMT == InitSeqMT /\ [][NextSeqMT]_vars

(***************************************************************************)
(* Specification SpecMTTwice: determinized(k) called twice on the same     *)
(* automaton with the same number of shards (the tests call it once per    *)
(* kind on one automaton).  get_hash is the same function in both calls:   *)
(* the hash values chosen in the first call are kept.  The first call's    *)
(* return value is kept in prev.                                           *)
(***************************************************************************)
\* the second call: rabin_scott_mt lines 46-110 again, on fresh maps, queues and
\* channels, with the start subset hashed as before
MtAgain ==
    /\ pc = "mt_done"
    /\ prev = <<>>
    /\ prev' = <<result>>
    /\ result' = None
    /\ LET start_state == AddStates(get_transition_array(aut), UbigNew, aut.start)
           start_hash == hashes[start_state]
       IN /\ num_maps' = [j \in Shards |->
                             IF j = start_hash THEN (start_state :> 0) ELSE <<>>]
          /\ frontiers' = [j \in Shards |->
                              IF j = start_hash THEN <<start_state>> ELSE <<>>]
          /\ mt' = [thread_status   |-> [j \in Shards |-> FALSE],
                    count           |-> n_threads,
                    threads_reduces |-> [j \in Shards |-> FALSE],
                    id_state_map    |-> (0 :> 0),
                    transitions     |-> <<>>,
                    accept_states   |-> IF HitsEnd(aut, start_state) THEN <<0>> ELSE <<>>]
    /\ tm' = [j \in Shards |-> WorkerInit]
    /\ map_locks' = [j \in Shards |-> {}]
    /\ frontier_locks' = [j \in Shards |-> {}]
    /\ stop_sig' = FALSE
    /\ new_ids' = 0
    /\ frontier_empty_ch' = <<>>
    /\ reduce_ch' = <<>>
    /\ transition_ch' = <<>>
    /\ accept_ch' = <<>>
    /\ pc' = "mt_recv"
    /\ UNCHANGED <<aut, seqvars, ubvars, n_threads, nfa, hashes,
                   rev_arr, p, q, state_partition_map, set, c, rs, potential_partitions>>

NextMTTwice == NextMTOnly \/ MtAgain

SpecMTTwice == InitMTRace /\ [][NextMTTwice]_vars

(***************************************************************************)
(* Properties of the sequential determinizer (SpecSeq).                    *)
(***************************************************************************)
SeqDone == pc = "seq_done"

\* C1: the DFA returned by rabin_scott_seq accepts exactly the words the
\* input NFA accepts (epsilon transitions and several start states included).
C1_LanguagePreserved ==
    SeqDone => SameLanguage(aut, DetAutomaton(aut, result))

C1_Witness ==
    /\ SeqDone
    /\ Len(aut.start) = 2
    /\ \E t \in TableSet(aut) : t[2] = 0 /\ t[1] # t[3]
    /\ result.size >= 3
    /\ result.end # <<>>
    /\ Len(result.end) < result.size

\* C7: the output lists exactly one transition per (state id, symbol in 1..A):
\* N' * A in all, none on symbol 0, no two with the same source and symbol.
C7_OnePerStateSymbol ==
    SeqDone =>
      /\ Len(result.transitions) = result.size * aut.alphabet
      /\ \A k \in DOMAIN result.transitions :
           /\ result.transitions[k][1] \in 0..(result.size - 1)
           /\ result.transitions[k][2] \in 1..aut.alphabet
           /\ result.transitions[k][3] \in 0..(result.size - 1)
      /\ \A i \in 0..(result.size - 1), sy \in 1..aut.alphabet :
           Cardinality({k \in DOMAIN result.transitions :
                          result.transitions[k][1] = i /\ result.transitions[k][2] = sy}) = 1

C7_Witness ==
    /\ SeqDone
    /\ aut.alphabet = 2
    /\ result.size = 4
    /\ Len(result.transitions) = 8

\* largest element of a finite set of naturals, 0 when empty
MaxOf(S) == IF S = {} THEN 0 ELSE CHOOSE x \in S : \A y \in S : y <= x

\* C8: ids follow the FIFO order of first discovery: the start closure is id 0,
\* starts = [0], subsets are expanded in id order with symbols ascending, and
\* each newly discovered subset takes the next unused id.
C8_FifoNumbering ==
    /\ (pc \notin {"seq_start"} /\ num_mapper # <<>>) =>
        /\ \E key \in DOMAIN num_mapper :
             num_mapper[key] = 0 /\ Members(decompress(key)) = StartSet(aut)
        /\ \A k \in DOMAIN transitions :
             /\ transitions[k][1] = (k - 1) \div aut.alphabet
             /\ transitions[k][2] = ((k - 1) % aut.alphabet) + 1
             /\ transitions[k][3] <= 1 + MaxOf({transitions[j][3] : j \in 1..(k - 1)})
    /\ SeqDone => result.start = <<0>> /\ result.transitions = transitions

C8_Witness ==
    /\ SeqDone
    /\ aut.alphabet = 2
    /\ result.size = 4
    /\ \E k \in DOMAIN transitions : transitions[k][3] < transitions[k][1]

RECURSIVE DfaReach(_, _)
\* the state ids reached from R along the transitions of tuple r
DfaReach(r, R) ==
    LET R2 == R \cup {t[3] : t \in {x \in Range(r.transitions) : x[1] \in R}}
    IN IF R2 = R THEN R ELSE DfaReach(r, R2)

\* C9: every output state is reachable from state 0, and no subset of the
\* output holds an NFA state that no word reaches from the NFA's start states.
C9_OnlyReachable ==
    SeqDone =>
      /\ DfaReach(result, {0}) = 0..(result.size - 1)
      /\ \A key \in DOMAIN num_mapper :
           Members(decompress(key)) \subseteq ReachableStates(aut)

C9_Witness ==
    /\ SeqDone
    /\ ReachableStates(aut) # Ids(aut.size - 1)
    /\ \E t \in TableSet(aut) : t[1] \notin ReachableStates(aut)
    /\ result.size >= 2

\* C10: no two state ids stand for the same set of NFA states.
C10_OneIdPerSubset ==
    \A k1, k2 \in DOMAIN num_mapper :
        Members(decompress(k1)) = Members(decompress(k2)) => k1 = k2

\* the ids of the subsets without members
SinkIds == {num_mapper[key] : key \in {k \in DOMAIN num_mapper : Members(decompress(k)) = {}}}

\* C11: a (subset, symbol) without successor gets its transition to the one
\* state of the empty subset; that state is not accepting and loops to itself
\* on every symbol of 1..A.  An NFA with one start = accept state and no
\* transitions yields two states.
C11_SinkState ==
    SeqDone =>
      /\ Cardinality(SinkIds) <= 1
      /\ \A key \in DOMAIN num_mapper, sy \in 1..aut.alphabet :
           Move(aut, Members(decompress(key)), sy) = {} =>
             \E d \in SinkIds : <<num_mapper[key], sy, d>> \in Range(result.transitions)
      /\ \A d \in SinkIds :
           /\ d \notin Range(result.end)
           /\ \A sy \in 1..aut.alphabet : <<d, sy, d>> \in Range(result.transitions)
      /\ (aut.table = <<>> /\ Len(aut.start) = 1 /\ aut.end = aut.start) => result.size = 2

C11_Witness ==
    /\ SeqDone
    /\ aut.table = <<>>
    /\ aut.start = <<0>>
    /\ aut.end = <<0>>
    /\ aut.alphabet = 2
    /\ result.size = 2
    /\ SinkIds = {1}
    /\ result.end = <<0>>

\* C12: an id is in the accept list exactly when its subset, which is closed
\* under symbol-0 transitions, holds an accepting NFA state; no id is listed
\* twice.
C12_AcceptsIffSubsetAccepting ==
    SeqDone =>
      /\ \A key \in DOMAIN num_mapper :
           /\ EpsClosure(aut, Members(decompress(key))) = Members(decompress(key))
           /\ (num_mapper[key] \in Range(result.end))
                <=> (Members(decompress(key)) \cap Range(aut.end) # {})
      /\ Range(result.end) \subseteq {num_mapper[key] : key \in DOMAIN num_mapper}
      /\ \A i, j \in DOMAIN result.end : result.end[i] = result.end[j] => i = j

C12_Witness ==
    /\ SeqDone
    /\ Range(aut.start) \cap Range(aut.end) = {}
    /\ 0 \in Range(result.end)
    /\ Len(result.end) = 2
    /\ result.size = 3

(***************************************************************************)
(* Properties of determinized() (SpecDet).                                 *)
(***************************************************************************)
\* C13: determinized() of a DET automaton returns the same kind, size,
\* alphabet, transitions, starts and accepts; determinizing the result of
\* determinized() once more returns it unchanged.
C13_DetReturnedAsIs ==
    /\ (pc = "det_done" /\ aut.automaton_type = "Det") =>
         /\ result.automaton_type = aut.automaton_type
         /\ result.size = aut.size
         /\ result.alphabet = aut.alphabet
         /\ result.table = aut.table
         /\ result.start = aut.start
         /\ result.end = aut.end
    /\ pc = "det_again" => result = prev[1]

C13_Witness ==
    /\ pc = "det_again"
    /\ aut.automaton_type = "NonDet"
    /\ \E t \in TableSet(aut) : t[2] = 0
    /\ prev[1].size >= 3
    /\ prev[1].automaton_type = "Det"
    /\ result = prev[1]

\* no symbol-0 transition, at most one destination per (state, symbol), one start
IsDeterministic(m) ==
    /\ \A t \in TableSet(m) : t[2] # 0
    /\ \A t1, t2 \in TableSet(m) : (t1[1] = t2[1] /\ t1[2] = t2[2]) => t1[3] = t2[3]
    /\ Len(m.start) = 1

IsBfsNumbered(m) ==
    /\ m.start = <<0>>
    /\ Len(m.table) = m.size * m.alphabet
    /\ \A k \in DOMAIN m.table :
         /\ m.table[k][1] = (k - 1) \div m.alphabet
         /\ m.table[k][2] = ((k - 1) % m.alphabet) + 1
         /\ m.table[k][3] <= 1 + MaxOf({m.table[j][3] : j \in 1..(k - 1)})
    /\ ReachableStates(m) = 0..(m.size - 1)
    /\ \A i, j \in DOMAIN m.end : i < j => m.end[i] < m.end[j]

C15_AddStateIsClosure ==
    (op.name = "add_state" /\ EpsClosure(aut, Members(other)) = Members(other)) =>
      /\ Members(ubig) = Members(other) \cup EpsClosure(aut, {op.bit})
      /\ EpsClosure(aut, Members(ubig)) = Members(ubig)

C15_Witness ==
    /\ op.name = "add_state"
    /\ Members(other) # {}
    /\ EpsClosure(aut, Members(other)) = Members(other)
    /\ op.bit \notin Members(other)
    /\ EpsClosure(aut, {op.bit}) = ClosureIds
    /\ \E t \in TableSet(aut) : t[2] = 0 /\ t[1] # op.bit
    /\ Members(ubig) = ClosureIds

\* C16: two Ubigs holding the same indices compare equal and feed the hasher
\* the same input, whatever the insertion order and the trailing zero bytes.
C16_SameSetEqualAndSameHash ==
    Members(ubig) = Members(other) => (eq(ubig, other) /\ hash(ubig) = hash(other))

\* C17: two Ubigs compare equal only if they hold the same indices.
C17_EqualOnlyIfSameSet ==
    eq(ubig, other) => Members(ubig) = Members(other)

\* C18: after set_to(i, v), bit_at(i) is v; a second set_to(i, true) changes
\* nothing.
C18_SetToThenBitAt ==
    op.name = "set_to" =>
      /\ bit_at(ubig, op.bit) = op.val
      /\ op.val => set_to(ubig, op.bit, TRUE) = ubig

\* C19: get_seq lists exactly the set indices, ascending and once each; a Ubig
\* built by from_seq from an ascending duplicate-free list gives that list back.
C19_GetSeqAscendingMembers ==
    /\ Range(get_seq(ubig)) = {i \in 0..(Len(ubig) * 8 - 1) :
                                 (ubig[(i \div 8) + 1] \div Pow2(i % 8)) % 2 = 1}
    /\ \A i, j \in DOMAIN get_seq(ubig) : i < j => get_seq(ubig)[i] < get_seq(ubig)[j]
    /\ (op.name = "from_seq" /\ \A i, j \in DOMAIN op.seq : i < j => op.seq[i] < op.seq[j])
         => get_seq(ubig) = op.seq

C19_Witness ==
    /\ op.name = "from_seq"
    /\ op.seq = <<0, 8, 10>>
    /\ get_seq(ubig) = <<0, 8, 10>>
    /\ Len(ubig) >= 2

(***************************************************************************)
(* Isomorphism of automata: a renaming of the state ids of m1 that turns   *)
(* its starts, accepts and transition set into those of m2.                *)
(***************************************************************************)
RECURSIVE StatePairs(_, _, _)
\* the pairs <<x, y>> of states that m1 and m2 reach from the pairs of R on the same word
StatePairs(m1, m2, R) ==
    LET R2 == R \cup {<<tt[1][3], tt[2][3]>> :
                        tt \in {xy \in TableSet(m1) \X TableSet(m2) :
                                  <<xy[1][1], xy[2][1]>> \in R /\ xy[1][2] = xy[2][2]}}
    IN IF R2 = R THEN R ELSE StatePairs(m1, m2, R2)

RECURSIVE Renamings(_, _)
\* the maps i |-> f[i + 1] on 0..(k - 1) with f[i + 1] in choice[i]
Renamings(k, choice) ==
    IF k = 0 THEN {<<>>}
    ELSE {Append(f, y) : f \in Renamings(k - 1, choice), y \in choice[k - 1]}

\* f renames m1 into m2
IsRenaming(f, m1, m2) ==
    /\ \A i, j \in DOMAIN f : f[i] = f[j] => i = j
    /\ {f[x + 1] : x \in Range(m1.start)} = Range(m2.start)
    /\ {f[x + 1] : x \in Range(m1.end)} = Range(m2.end)
    /\ {<<f[t[1] + 1], t[2], f[t[3] + 1]>> : t \in TableSet(m1)} = TableSet(m2)

\* a renaming must respect every pair in StatePairs when the start lists are single
Isomorphic(m1, m2) ==
    /\ m1.size = m2.size
    /\ m1.alphabet = m2.alphabet
    /\ Len(m1.start) = Len(m2.start)
    /\ LET all    == 0..(m2.size - 1)
           R      == IF Len(m1.start) = 1
                     THEN StatePairs(m1, m2, {<<m1.start[1], m2.start[1]>>})
                     ELSE {}
           choice == [i \in 0..(m1.size - 1) |->
                        IF \E pr \in R : pr[1] = i
                        THEN {pr[2] : pr \in {x \in R : x[1] = i}} \cap all
                        ELSE all]
       IN \E f \in Renamings(m1.size, choice) : IsRenaming(f, m1, m2)

(***************************************************************************)
(* Properties of the minimizer (SpecMin).                                  *)
(***************************************************************************)
MinDone == pc = "min_done"

\* one destination per (state, symbol in 1..A), none on symbol 0, ids in range
IsCompleteDfa(m) ==
    /\ \A t \in TableSet(m) :
         t[1] \in 0..(m.size - 1) /\ t[3] \in 0..(m.size - 1) /\ t[2] \in 1..m.alphabet
    /\ \A x \in 0..(m.size - 1), sy \in 1..m.alphabet :
         Cardinality({t \in TableSet(m) : t[1] = x /\ t[2] = sy}) = 1

\* states x and y of m accept the same words
Equivalent(m, x, y) ==
    LET mx == [m EXCEPT !.start = <<x>>]
        my == [m EXCEPT !.start = <<y>>]
    IN SameLanguage(mx, my)

\* the block of state x in the partition hopcroft_algo returned
BlockOf(x) == HopResult(HopSt).ret_map[x]

MinimalSize(m) ==
    LET R == ReachableStates(m)
    IN Cardinality({{y \in R : Equivalent(m, x, y)} : x \in R})

\* C4: minimized(M) is the minimal DFA of L(M): it accepts L(M) and no DFA
\* with fewer states does.  Stated for the inputs that go through
\* hopcroft_algo (size > 2) and have no unreachable state.
C4_Minimal ==
    (MinDone /\ prev = <<>> /\ ~MinClones(aut)
        /\ ReachableStates(aut) = 0..(aut.size - 1)) =>
        /\ SameLanguage(aut, result)
        /\ result.size = MinimalSize(aut)

\* C5: minimized(minimized(M)) equals minimized(M) field for field.
C5_IdempotentExactly ==
    (MinDone /\ prev # <<>>) => result = prev[1]

\* C5, up to renaming: minimized(minimized(M)) has the size of minimized(M) and is
\* minimized(M) up to a renaming of the state ids.
C5_IdempotentUpToRenaming ==
    (MinDone /\ prev # <<>>) =>
        /\ result.size = prev[1].size
        /\ Isomorphic(result, prev[1])

C5_Witness ==
    /\ MinDone /\ prev # <<>>
    /\ ~MinClones(aut)
    /\ result # prev[1]

(***************************************************************************)
(* Properties of the parallel determinizer and the pipeline (SpecMT).      *)
(***************************************************************************)
MtDone == pc = "mt_done"

\* the automaton determinized() builds from the sequential determinizer's return
SeqDet(m) == DetAutomaton(m, rabin_scott_seq(m))

\* C2: whatever the shard count and the interleaving, the automaton
\* rabin_scott_mt returns is the sequential determinizer's up to a renaming of
\* the state ids that keeps start 0: same size, same transitions, same accepts.
C2_ParallelIsomorphicToSequential ==
    MtDone => Isomorphic(DetAutomaton(aut, result), SeqDet(aut))

C2_Witness ==
    /\ MtDone
    /\ n_threads = 2
    /\ {hashes[k] : k \in DOMAIN hashes} = {0, 1}
    /\ result.size >= 3
    /\ result.transitions # rabin_scott_seq(aut).transitions
    /\ Range(result.end) # {}

\* C6: minimized() applied to what the parallel determinizer returned is
\* isomorphic to minimized() applied to what the sequential one returns, for
\* every shard count, interleaving and order of the accept and transition lists.
C6_MinimizedAgree ==
    (MinDone /\ nfa # <<>>) => Isomorphic(result, minimized(SeqDet(nfa[1])))

\* transitions in lexicographic order, starts and accepts strictly ascending
Normalized(m) ==
    /\ \A i, j \in DOMAIN m.table : i < j => TripleLeq(m.table[i], m.table[j])
    /\ \A i, j \in DOMAIN m.start : i < j => m.start[i] < m.start[j]
    /\ \A i, j \in DOMAIN m.end : i < j => m.end[i] < m.end[j]

\* C20: the automata returned by the sequential determinizer, by the parallel
\* determinizer and by the minimizer have a lexicographically sorted transition
\* list and strictly ascending start and accept lists.
C20_OutputsNormalized ==
    /\ SeqDone => Normalized(DetAutomaton(aut, result))
    /\ MtDone => Normalized(DetAutomaton(aut, result))
    /\ MinDone => Normalized(result)

\* no triple is listed at two positions of the table
NoDuplicateTransitions(m) ==
    \A i, j \in DOMAIN m.table : m.table[i] = m.table[j] => i = j

\* C21: the automaton determinized() or minimized() returns lists no
\* transition twice, also when the input comes back through the clone paths.
C21_NoDuplicateTransitions ==
    (pc \in {"det_done", "det_again"} \/ MinDone) => NoDuplicateTransitions(result)

\* the input names a state >= size or a symbol > alphabet, or is declared
\* Det and has a transition on symbol 0
IsMalformed(m) ==
    \/ \E i \in DOMAIN m.table :
          \/ m.table[i][1] >= m.size
          \/ m.table[i][3] >= m.size
          \/ m.table[i][2] > m.alphabet
          \/ m.automaton_type = "Det" /\ m.table[i][2] = 0
    \/ \E i \in DOMAIN m.start : m.start[i] >= m.size
    \/ \E i \in DOMAIN m.end : m.end[i] >= m.size

\* C22: determinized() returns an automaton only for well-formed input; a
\* malformed input makes the call fail instead.
C22_MalformedInputFails ==
    pc = "det_done" => ~IsMalformed(aut)

RECURSIVE SortTriples(_)
\* Vec::sort on a list of triples: every entry is kept
SortTriples(list) ==
    IF list = <<>> THEN <<>>
    ELSE LET k == CHOOSE i \in DOMAIN list : \A j \in DOMAIN list : TripleLeq(list[i], list[j])
         IN <<list[k]>> \o SortTriples(SubSeq(list, 1, k - 1) \o SubSeq(list, k + 1, Len(list)))

RECURSIVE SortNats(_)
\* Vec::sort on a list of state ids
SortNats(list) ==
    IF list = <<>> THEN <<>>
    ELSE LET k == CHOOSE i \in DOMAIN list : \A j \in DOMAIN list : list[i] <= list[j]
         IN <<list[k]>> \o SortNats(SubSeq(list, 1, k - 1) \o SubSeq(list, k + 1, Len(list)))

\* automaton_test.rs lines 7-12
order_transitions(m) ==
    [m EXCEPT !.table = SortTriples(m.table),
              !.start = SortNats(m.start),
              !.end = SortNats(m.end)]

\* C23: once its lists are sorted, the automaton the parallel determinizer
\* returns is the sequential determinizer's, state numbers included, for every
\* interleaving of the workers and of the merge.
C23_ParallelEqualsSequential ==
    MtDone => order_transitions(DetAutomaton(aut, result)) = order_transitions(SeqDet(aut))

Expanding == {"explore", "map_new", "lock_next", "map_next", "lock_front", "push"}

\* the positions of a worker after it read the stop flag as set
Stopped == {"flush", "exited"}

\* C25: once the stop flag is set every shard's queue is empty and no worker
\* is expanding a subset, and a worker that has read the flag as set had found
\* its own queue empty and had reported itself idle, which the main thread
\* has recorded.
C25_StopNotEarly ==
    (pc \in {"mt_recv", "mt_merge_t", "mt_merge_a", "mt_merge_r", "mt_drain", "mt_done"}) =>
      /\ stop_sig => \A i \in Shards : frontiers[i] = <<>> /\ tm[i].pc \notin Expanding
      /\ \A i \in Shards : tm[i].pc \in Stopped =>
            /\ stop_sig
            /\ tm[i].frontier_empty
            /\ mt.thread_status[i]
            /\ frontiers[i] = <<>>

C25_Witness ==
    /\ pc = "mt_merge_t"
    /\ stop_sig
    /\ n_threads = 2
    /\ {hashes[k] : k \in DOMAIN hashes} = {0, 1}
    /\ \A i \in Shards : tm[i].local_transitions # <<>> /\ tm[i].pc = "lock_own"
    /\ mt.transitions = <<>>

\* the mutexes worker i holds: the subset-to-id maps and the queues, per shard
HeldBy(i) ==
    {<<"num_maps", j>> : j \in {k \in Shards : i \in map_locks[k]}}
      \cup {<<"frontiers", j>> : j \in {k \in Shards : i \in frontier_locks[k]}}

\* the positions at which a worker's next step is a lock()
AtLock == {"lock_own", "explore", "lock_next", "lock_front"}

MtRunning == pc \in {"mt_recv", "mt_merge_t", "mt_merge_a", "mt_merge_r", "mt_drain"}

\* C26: a worker holds at most one mutex at a time and none while it waits for
\* one: the id of the expanded subset is read under the lock of its own map
\* only, the target queue is locked with no map lock held, every mutex has at
\* most one holder, and as long as a worker has not left some worker can step.
C26_OneMutexNoDeadlock ==
    MtRunning =>
      /\ \A j \in Shards : Cardinality(map_locks[j]) <= 1 /\ Cardinality(frontier_locks[j]) <= 1
      /\ \A i \in Shards :
            /\ Cardinality(HeldBy(i)) <= 1
            /\ tm[i].pc \in AtLock => HeldBy(i) = {}
            /\ tm[i].pc = "map_new" => HeldBy(i) = {<<"num_maps", tm[i].hash_new>>}
            /\ tm[i].pc = "map_next" => HeldBy(i) = {<<"num_maps", tm[i].hash_next>>}
            /\ tm[i].pc = "push" => HeldBy(i) = {<<"frontiers", tm[i].hash_new>>}
      /\ (\E i \in Shards : tm[i].pc # "exited") => ENABLED (\E i \in Shards : Worker(i))

C26_Witness ==
    /\ MtRunning
    /\ n_threads = 2
    /\ tm[0].pc = "lock_front"
    /\ tm[0].hash_new = 1
    /\ tm[0].hash_next = 0
    /\ frontier_locks[1] = {1}
    /\ tm[1].pc = "pop"

\* the lists of `blocks` are duplicate-free, pairwise disjoint and cover 0..n-1
IsPartition(blocks, n) ==
    /\ \A i \in DOMAIN blocks : \A j, k \in DOMAIN blocks[i] :
          blocks[i][j] = blocks[i][k] => j = k
    /\ \A i, j \in DOMAIN blocks : i # j => Range(blocks[i]) \cap Range(blocks[j]) = {}
    /\ UNION {Range(blocks[i]) : i \in DOMAIN blocks} = 0..(n - 1)

\* hopcroft_algo is between its initialisation and its return, or has returned
HopRunning == pc \in {"hop_pop", "hop_symbol", "hop_split"} \/ (MinDone /\ ~MinClones(aut))

\* C27: from the initial partition to the return of hopcroft_algo the blocks
\* are pairwise disjoint and cover [0, size), the state-to-block map names for
\* every state the block that holds it, and the returned map is defined on
\* every state of [0, size).
C27_BlocksPartitionStates ==
    HopRunning =>
      /\ IsPartition(p, aut.size)
      /\ DOMAIN state_partition_map = 0..(aut.size - 1)
      /\ \A x \in 0..(aut.size - 1) : x \in Range(p[state_partition_map[x] + 1])
      /\ MinDone =>
           /\ DOMAIN HopResult(HopSt).ret_map = 0..(aut.size - 1)
           /\ \A x \in 0..(aut.size - 1) : HopResult(HopSt).ret_map[x] \in 0..(Len(p) - 1)

C27_Witness ==
    /\ MinDone /\ ~MinClones(aut)
    /\ aut.size = 4
    /\ Len(p) = 3
    /\ \E i \in DOMAIN p : Len(p[i]) = 2

\* the subsets the workers discovered: the keys of all the shards' maps
Discovered == UNION {DOMAIN num_maps[j] : j \in Shards}

\* the local id the shard maps hold for subset u
LocalId(u) == num_maps[hashes[u]][u]

\* C28: the parallel determinizer returns starts = [0], the start subset has
\* global id 0, and the global ids are exactly 0 .. N'-1 with N' the number of
\* subsets discovered: one id per subset, and every id in the transitions and
\* in the accepts is below N'.
C28_StartZeroDenseIds ==
    MtDone =>
      LET start_state == AddStates(get_transition_array(aut), UbigNew, aut.start)
          ids == {mt.id_state_map[k] : k \in DOMAIN mt.id_state_map}
      IN /\ result.start = <<0>>
         /\ start_state \in Discovered
         /\ mt.id_state_map[LocalId(start_state)] = 0
         /\ result.size = Cardinality(Discovered)
         /\ ids = 0..(result.size - 1)
         /\ DOMAIN mt.id_state_map = {LocalId(u) : u \in Discovered}
         /\ \A k \in DOMAIN result.transitions :
              result.transitions[k][1] \in ids /\ result.transitions[k][3] \in ids
         /\ \A k \in DOMAIN result.end : result.end[k] \in ids

C28_Witness ==
    /\ MtDone
    /\ n_threads = 2
    /\ result.size = 3
    /\ result.end # <<>>
    /\ \E k \in DOMAIN mt.id_state_map : mt.id_state_map[k] # k

\* the positions of a worker between its lookup of the successor and the push
AfterLookup == {"lock_next", "map_next", "lock_front", "push"}

\* the places subset u waits in or is worked on: a queue position, a worker that
\* inserted it and has not pushed it yet, a worker that popped it and expands it
Holders(u) ==
    UNION {{<<"queued", j, k>> : k \in {n \in DOMAIN frontiers[j] : frontiers[j][n] = u}} :
              j \in Shards}
      \cup {<<"inserted", i>> : i \in {j \in Shards : /\ tm[j].pc \in AfterLookup
                                                       /\ tm[j].is_new
                                                       /\ tm[j].new_s = u}}
      \cup {<<"expanding", i>> : i \in {j \in Shards : tm[j].pc \in Expanding /\ tm[j].next = u}}

\* the transition records with the local id of u as source on symbol sy: in the
\* workers' local lists, in the channel, and merged under u's global id
Records(u, sy) ==
    UNION {{<<"local", i, k>> : k \in {n \in DOMAIN tm[i].local_transitions :
                 /\ tm[i].local_transitions[n][1] = LocalId(u)
                 /\ tm[i].local_transitions[n][2] = sy}} : i \in Shards}
      \cup {<<"sent", k>> : k \in {n \in DOMAIN transition_ch :
           transition_ch[n][1] = LocalId(u) /\ transition_ch[n][2] = sy}}
      \cup {<<"merged", k>> : k \in {n \in DOMAIN mt.transitions :
           /\ LocalId(u) \in DOMAIN mt.id_state_map
           /\ mt.transitions[n][1] = mt.id_state_map[LocalId(u)]
           /\ mt.transitions[n][2] = sy}}

\* the expansion of u has recorded its transition on symbol sy
Recorded(u, sy) ==
    \/ Holders(u) = {}
    \/ \E i \in Shards :
         /\ <<"expanding", i>> \in Holders(u)
         /\ \/ sy < tm[i].a
            \/ sy = tm[i].a /\ tm[i].pc \in {"lock_front", "push"}

\* C29: a subset is a key of the map of its own shard only and has one local
\* id; every worker that looked it up holds that id; it is queued, or held by
\* the one worker that inserted it, or expanded by one worker, never twice;
\* and each symbol of its expansion has recorded one transition, no more.
C29_InsertedPushedExpandedOnce ==
    (MtRunning \/ MtDone) =>
      /\ \A j \in Shards : \A u \in DOMAIN num_maps[j] : hashes[u] = j
      /\ \A u, w \in Discovered : LocalId(u) = LocalId(w) => u = w
      /\ \A i \in Shards : tm[i].pc \in AfterLookup =>
            /\ tm[i].new_s \in Discovered
            /\ tm[i].id_new = LocalId(tm[i].new_s)
      /\ \A u \in Discovered :
            /\ Cardinality(Holders(u)) <= 1
            /\ \A sy \in 1..aut.alphabet :
                 Cardinality(Records(u, sy)) = IF Recorded(u, sy) THEN 1 ELSE 0
      /\ MtDone => \A u \in Discovered : Holders(u) = {}

C29_Witness ==
    /\ MtRunning
    /\ n_threads = 2
    /\ tm[0].pc \in AfterLookup /\ tm[1].pc \in AfterLookup
    /\ tm[0].new_s = tm[1].new_s
    /\ tm[0].next # tm[1].next
    /\ tm[0].is_new /\ ~tm[1].is_new
    /\ tm[0].id_new = tm[1].id_new

\* the main thread is in its merge loop, at the drain, or has returned
MtMerging == pc \in {"mt_merge_t", "mt_merge_a", "mt_merge_r", "mt_drain", "mt_done"}

\* the local id that was given global id g
LocalOf(g) == CHOOSE l \in DOMAIN mt.id_state_map : mt.id_state_map[l] = g

\* the transitions the workers recorded: one per discovered subset and symbol
RecordedTransitions ==
    {<<LocalId(u), sy, LocalId(NewSubset(get_transition_array(aut), u, sy))>> :
        u \in Discovered, sy \in 1..aut.alphabet}

\* the accepts recorded: the local ids of the discovered subsets that hold an
\* accepting state (the start subset's by the main thread, the others by workers)
RecordedAccepts == {LocalId(u) : u \in {w \in Discovered : HitsEndSet(aut, w)}}

\* where the transition records are: merged (by local ids), in the channel, in a worker
TransitionPlaces ==
    {<<"merged", k>> : k \in DOMAIN mt.transitions}
      \cup {<<"sent", k>> : k \in DOMAIN transition_ch}
      \cup UNION {{<<"local", i, k>> : k \in DOMAIN tm[i].local_transitions} : i \in Shards}

TransitionsHeld ==
    {<<LocalOf(mt.transitions[k][1]), mt.transitions[k][2], LocalOf(mt.transitions[k][3])>> :
        k \in DOMAIN mt.transitions}
      \cup Range(transition_ch)
      \cup UNION {Range(tm[i].local_transitions) : i \in Shards}

AcceptPlaces ==
    {<<"merged", k>> : k \in DOMAIN mt.accept_states}
      \cup {<<"sent", k>> : k \in DOMAIN accept_ch}
      \cup UNION {{<<"local", i, k>> : k \in DOMAIN tm[i].local_accepts} : i \in Shards}

AcceptsHeld ==
    {LocalOf(mt.accept_states[k]) : k \in DOMAIN mt.accept_states}
      \cup Range(accept_ch)
      \cup UNION {Range(tm[i].local_accepts) : i \in Shards}

\* C30: from the stop to the return every transition and every accept the
\* workers recorded is held exactly once, in a worker's list, in a channel or
\* merged under global ids; at the return all of them are merged and the
\* returned lists are the merged lists.
C30_MergeLosesNothing ==
    MtMerging =>
      /\ LET recorded == RecordedTransitions
         IN /\ TransitionsHeld = recorded
            /\ Cardinality(TransitionPlaces) = Cardinality(recorded)
      /\ LET recorded == RecordedAccepts
         IN /\ AcceptsHeld = recorded
            /\ Cardinality(AcceptPlaces) = Cardinality(recorded)
      /\ MtDone =>
           /\ \A i \in Shards : tm[i].local_transitions = <<>> /\ tm[i].local_accepts = <<>>
           /\ transition_ch = <<>> /\ accept_ch = <<>>
           /\ result.transitions = mt.transitions
           /\ result.end = mt.accept_states

C30_Witness ==
    /\ pc = "mt_drain"
    /\ n_threads = 2
    /\ \A i \in Shards : tm[i].pc = "exited"
    /\ mt.transitions # <<>>
    /\ transition_ch # <<>>
    /\ accept_ch # <<>>

(***************************************************************************)
(* Status messages of the workers (rabin_scott_worker_mt lines 160-176,    *)
(* explore loop lines 228-230).                                            *)
(***************************************************************************)
\* worker i takes a step that sends a status message
Reports(i) ==
    /\ i \in Shards
    /\ tm'[i] # tm[i]
    /\ Len(frontier_empty_ch') = Len(frontier_empty_ch) + 1

\* the status message the step sends
Reported == frontier_empty_ch'[Len(frontier_empty_ch')]

\* the message tells the worker's own change of status
OwnChange(i) ==
    /\ Reported[2] = i
    /\ tm'[i].frontier_empty # tm[i].frontier_empty
    /\ Reported[1] = tm'[i].frontier_empty

\* the message tells that the queue the worker pushes on was empty
WakesTarget(i) ==
    /\ tm[i].pc = "push"
    /\ Reported = <<FALSE, tm[i].hash_new>>
    /\ frontiers[tm[i].hash_new] = <<>>
    /\ Len(frontiers'[tm[i].hash_new]) = 1

Explored(u) ==
    /\ Holders(u) = {}
    /\ \A sy \in 1..aut.alphabet : Records(u, sy) # {}

C33_RunsAgreeUpToOrder ==
    (MtDone /\ prev # <<>>) =>
        /\ result.size = prev[1].size
        /\ Range(result.transitions) = Range(prev[1].transitions)
        /\ Range(result.end) = Range(prev[1].end)


(***************************************************************************)
(* The blocks of the minimizer's partition.                                *)
(***************************************************************************)
\* C34: the partition of hopcroft_algo never holds an empty block, from the
\* initial partition on; the size minimized() returns is the number of non-empty
\* blocks and every block id below it has at least one state
C34_NoEmptyBlock ==
    HopRunning =>
      /\ \A i \in DOMAIN p : p[i] # <<>>
      /\ MinDone =>
           /\ result.size = Cardinality({i \in DOMAIN p : p[i] # <<>>})
           /\ \A b \in 0..(result.size - 1) :
                 \E x \in 0..(aut.size - 1) : HopResult(HopSt).ret_map[x] = b


(***************************************************************************)
(* The worklist at a split (hopcroft_algo lines 191-207).                  *)
(***************************************************************************)
\* the number of entries of the worklist w equal to block y
Entries(w, y) == Cardinality({k \in DOMAIN w : w[k] = y})

\* the step splits a block: the partition gets one block more
Splits == pc = "hop_split" /\ Len(p') = Len(p) + 1

\* the index of the block the step splits
SplitIndex == CHOOSE i \in DOMAIN p : p'[i] # p[i]

\* C35: when a block Y is split into Y1 = Y /\ X and Y2 = Y \ X and Y is in the
\* worklist, one entry Y of the worklist is replaced by the two halves; when Y is
\* not in the worklist, one entry is added, the smaller of the two halves
C35_SplitUpdatesWorklist ==
    [][Splits =>
         LET Y  == p[SplitIndex]
             Y1 == p'[Len(p')]
             Y2 == p'[SplitIndex]
         IN IF Entries(q, Y) > 0
            THEN /\ Len(q') = Len(q) + 1
                 /\ Entries(q', Y) = Entries(q, Y) - 1
                 /\ Entries(q', Y1) = Entries(q, Y1) + 1
                 /\ Entries(q', Y2) = Entries(q, Y2) + 1
            ELSE /\ \E half \in {Y1, Y2} : q' = Append(q, half)
                 /\ Len(q'[Len(q')]) <= Len(Y1)
                 /\ Len(q'[Len(q')]) <= Len(Y2)]_vars


(***************************************************************************)
(* The automaton minimized() builds from the blocks.                       *)
(***************************************************************************)
\* the destinations the table of m lists for state x on symbol sy
Dests(m, x, sy) == {t[3] : t \in {u \in Range(m.table) : u[1] = x /\ u[2] = sy}}

C37_MinimizedNotLarger ==
    /\ MinDone => result.size <= aut.size
    /\ HopRunning => Len(p) <= aut.size


(***************************************************************************)
(* Termination of hopcroft_algo.                                           *)
(***************************************************************************)
\* C38: the refinement terminates on every DFA: every call of minimized() returns
\* with the worklist empty; the blocks are split at most size - 1 times in total,
\* and a split makes the worklist longer by one entry at most
C38_HopcroftTerminates ==
    /\ (pc = "min_start") ~> (MinDone /\ q = <<>>)
    /\ [](HopRunning => Len(p) - 2 <= aut.size - 1)
    /\ [][Splits => Len(q') <= Len(q) + 1]_vars

\* hopcroft_algo has returned with an empty worklist after two splits of a DFA of
\* four states
C38_Witness ==
    /\ MinDone
    /\ ~MinClones(aut)
    /\ q = <<>>
    /\ aut.size = 4
    /\ Len(p) = 4


(***************************************************************************)
(* The map lookups that are unwrapped (rabin_scott_seq lines 157-162,      *)
(* explore loop lines 205-219).                                            *)
(***************************************************************************)
\* rabin_scott_seq: every queued subset and the dequeued one are keys of the map,
\* and every recorded id was given by the map
SeqLookupsSucceed ==
    pc \in {"seq_pop", "seq_symbol", "seq_done"} =>
      /\ \A k \in DOMAIN frontier : compress(frontier[k]) \in DOMAIN num_mapper
      /\ pc = "seq_symbol" =>
            /\ compress(next) \in DOMAIN num_mapper
            /\ a <= aut.alphabet =>
                  \/ compress(NewSubset(transition_arr, next, a)) \in DOMAIN num_mapper
                  \/ Cardinality(DOMAIN num_mapper) \notin
                        {num_mapper[k] : k \in DOMAIN num_mapper}
      /\ \A k \in DOMAIN transitions :
            /\ transitions[k][1] \in {num_mapper[u] : u \in DOMAIN num_mapper}
            /\ transitions[k][3] \in {num_mapper[u] : u \in DOMAIN num_mapper}

\* rabin_scott_mt: every queued subset hashes to the shard of its queue and is a
\* key of that shard's map; so does the subset a worker has popped, and the
\* successor it has looked up is a key of the map of the shard it hashes to
MtLookupsSucceed ==
    (MtRunning \/ MtDone) =>
      /\ \A j \in Shards : \A k \in DOMAIN frontiers[j] :
            /\ hashes[frontiers[j][k]] = j
            /\ frontiers[j][k] \in DOMAIN num_maps[j]
      /\ \A i \in Shards :
            /\ tm[i].pc \in Expanding =>
                  /\ tm[i].next \in DOMAIN hashes
                  /\ hashes[tm[i].next] = i
                  /\ tm[i].next \in DOMAIN num_maps[i]
            /\ tm[i].pc \in {"map_new", "lock_next", "map_next", "lock_front", "push"} =>
                  /\ tm[i].hash_next = i
                  /\ tm[i].hash_new = hashes[tm[i].new_s]
            /\ tm[i].pc \in AfterLookup => tm[i].new_s \in DOMAIN num_maps[tm[i].hash_new]

\* C39: on well-formed input no unwrap of a map lookup fails: in the sequential
\* determinizer the dequeued subset and its successor are found in the
\* subset-to-id map; in a parallel worker the subset popped from its own queue
\* hashes to its own shard and is found in that shard's map
C39_LookupsNeverFail == SeqLookupsSucceed /\ MtLookupsSucceed

\* with two shards, worker 1 looks up the id of a subset that worker 0 inserted in
\* the map of shard 1 and pushed on the queue of shard 1
C39_Witness ==
    /\ MtRunning
    /\ n_threads = 2
    /\ tm[1].pc = "map_next"
    /\ hashes[tm[1].next] = 1
    /\ num_maps[1][tm[1].next] # 0
    /\ DOMAIN num_maps[1] = {tm[1].next}
    /\ DOMAIN num_maps[0] # {}

====
